---- MODULE Spec2Model ----
(***************************************************************************)
(* Verification model of use-prompt-api: the agent loop (BasicAgent.run,   *)
(* AdvancedAgent.runWithPlanning) over SessionManager, the function        *)
(* execution controller (executeFunctionCall / validateArguments) and the  *)
(* structured output controller (promptWithStructure).                     *)
(***************************************************************************)
EXTENDS Integers, Sequences, FiniteSets, TLC

\* ------------------------------------------------------------------ bounds
MaxIter == 2    \* largest configured maxIterations
MaxRefl == 1    \* largest configured maxReflections
MaxMgr == 3     \* SessionManager objects held at one time
MaxReruns == 2  \* runs started by the reflect loop of one runWithPlanning

\* caller-side invocations of run / runWithPlanning that may be pending
Calls == {"c1", "c2"}

\* ------------------------------------------------------- values and errors
Undef == "undefined"
NoError == "null"
NotFoundMsg == "not found in registry"
NotObjectMsg == "Parameters must be an object"
HandlerMsg == "handler error message"
CreateErr == "SessionError: Failed to create session"
PromptErr == "SessionError: Failed to prompt session"
OnStepErr == "onStep error"
NoSessionErr == "TypeError: this.session is null"
NoActiveSessionErr == "SessionError: No active session"
NoStepsText == "No steps to reflect on"
ReflectionText == "reflection"
NoReplanSessionErr == "Error: No active session for replanning"
TaskPrompt == [kind |-> "task"]
ContinuePrompt == [kind |-> "continue"]
ContinuationPrompt(reflection) == [kind |-> "continuation", reflection |-> reflection]

\* JavaScript values are modelled by tokens; these are the falsy ones
Falsy == {Undef, "", "0", "false", "null"}
Truthy(v) == v \notin Falsy

\* a || b
OrElse(a, b) == IF Truthy(a) THEN a ELSE b

\* --------------------------------------------------------------- registry
ArgNames == {"x", "y"}

ObjSchema(props, req) ==
  [type |-> "object", hasProperties |-> TRUE, properties |-> props, required |-> req]

\* the functions passed in config.functions of the modelled agent
AgentFunctions == [f |-> ObjSchema({"x"}, <<"x">>)]

RegistryHas(registry, name) == name \in DOMAIN registry

\* ----------------------------------------------------- function executor
MissingMsg(field) == "Missing required parameter: " \o field

RECURSIVE FirstMissing(_, _, _)
FirstMissing(required, args, i) ==
  IF i > Len(required) THEN NoError
  ELSE IF required[i] \notin args THEN MissingMsg(required[i])
  ELSE FirstMissing(required, args, i + 1)

validateArguments(args, parameters) ==
  IF parameters.type # "object" THEN NotObjectMsg
  ELSE IF ~parameters.hasProperties THEN NoError
  ELSE FirstMissing(parameters.required, args, 1)

Failure(msg) == [success |-> FALSE, result |-> Undef, error |-> msg]
Success(v) == [success |-> TRUE, result |-> v, error |-> Undef]

\* executeFunctionCall up to the handler invocation: either a result is
\* returned without invoking anything, or the handler is invoked
beforeHandler(call, registry) ==
  IF ~RegistryHas(registry, call.name)
  THEN [invoke |-> FALSE, result |-> Failure(NotFoundMsg)]
  ELSE LET validationError == validateArguments(call.args, registry[call.name])
       IN IF validationError # NoError
          THEN [invoke |-> FALSE, result |-> Failure(validationError)]
          ELSE [invoke |-> TRUE, result |-> Undef]

\* afterHandler letting the handler's exception escape
afterHandler_rethrow(outcome) ==
  IF outcome.kind = "returns"
  THEN [threw |-> FALSE, result |-> Success(outcome.value)]
  ELSE [threw |-> TRUE, result |-> Failure(outcome.value)]

\* executeFunctionCall from the settlement of the awaited handler
afterHandler(outcome) ==
  IF outcome.kind = "returns"
  THEN [threw |-> FALSE, result |-> Success(outcome.value)]
  ELSE [threw |-> FALSE, result |-> Failure(outcome.value)]

HandlerOutcomes ==
  {[kind |-> "returns", value |-> "v"], [kind |-> "throws", value |-> HandlerMsg]}

\* ------------------------------------------------------------ agent state
VARIABLES
  cfg,     \* AdvancedAgentConfig of the agent instance
  agent,   \* the fields of the BasicAgent / AdvancedAgent instance
  mgrs,    \* the heap of SessionManager objects, by identity
  calls,   \* per caller invocation: the locals of run / runWithPlanning
  exec,    \* one call of executeFunctionCall: its inputs and progress
  sp,      \* one call of promptWithStructure: its inputs, locals and log
  codec,   \* one call of parseFunctionCall: its input text and its outcome
  reg,     \* a FunctionRegistry: its Map and the history of its calls
  batch,   \* one call of executeFunctionCalls: its inputs, locals and log
  sm,      \* a SessionManager used directly: its fields and its call log
  strategy, \* a closure returned by createRetryStrategy and its call log
  waiting,  \* one call of waitForModelReady and its environment
  retrying  \* one call of withRetry: its inputs, locals and log

agentVars == <<cfg, agent, mgrs, calls>>

\* TaskStatus
TaskStatus == {"idle", "running", "completed", "failed", "stopped"}

\* AgentStep (timestamp left out); action and observation are optional
NoAction == [absent |-> TRUE]
NoObservation == [absent |-> TRUE]
AgentStep(i, thought, action, observation) ==
  [iteration |-> i, thought |-> thought, action |-> action, observation |-> observation]

\* AgentResult; steps is a reference to an array: stepsRef is the identity
\* of the array (0 before the result is handed out), steps its content
AgentResult(st, stps, answer, err, iters) ==
  [status |-> st, steps |-> stps, stepsRef |-> 0, finalAnswer |-> answer, error |-> err,
   iterations |-> iters]
NoResult == AgentResult("none", <<>>, Undef, Undef, 0)

\* model responses: raw text, whether the text holds a {...} substring,
\* whether that substring parses, and the parsed functionCall / reasoning
NoCall == [absent |-> TRUE]
TextResponse(t) ==
  [raw |-> t, braces |-> FALSE, parses |-> FALSE, functionCall |-> NoCall, reasoning |-> Undef]
CallResponse(n, a) ==
  [raw |-> "json", braces |-> TRUE, parses |-> TRUE,
   functionCall |-> [name |-> n, args |-> a], reasoning |-> "reasoning"]

DoneText == "The task is done."
MoreText == "Working on it."

Responses ==
  {TextResponse(DoneText), TextResponse(MoreText)}
    \cup {CallResponse("f", {"x"}), CallResponse("f", {}), CallResponse("nope", {})}

\* what parseFunctionCall hands back: the object it returns, or an exception
Parsed(call, reasoning, regular) ==
  [threw |-> FALSE, functionCall |-> call, reasoning |-> reasoning, regularResponse |-> regular]
ParseThrew ==
  [threw |-> TRUE, functionCall |-> NoCall, reasoning |-> Undef, regularResponse |-> Undef]

\* parseFunctionCall without its catch clause
parseFunctionCall_noCatch(response) ==
  IF ~response.braces THEN Parsed(NoCall, Undef, response.raw)
  ELSE IF ~response.parses THEN ParseThrew
  ELSE IF response.functionCall # NoCall
       THEN Parsed(response.functionCall, response.reasoning, Undef)
       ELSE Parsed(NoCall, Undef, response.raw)

\* no {...} match; JSON.parse throws (caught); functionCall truthy; else
parseFunctionCall(response) ==
  IF ~response.braces THEN Parsed(NoCall, Undef, response.raw)
  ELSE IF ~response.parses THEN Parsed(NoCall, Undef, response.raw)
  ELSE IF response.functionCall # NoCall
       THEN Parsed(response.functionCall, response.reasoning, Undef)
       ELSE Parsed(NoCall, Undef, response.raw)

formatFunctionResult(functionName, res, success) ==
  [kind |-> "functionResult", name |-> functionName, payload |-> res, success |-> success]

\* the next prompt run prepares from the ToolResult of a call
nextPrompt(call, res) ==
  formatFunctionResult(call.name, OrElse(res.result, res.error), res.success)

\* BasicAgent.isTaskComplete: the response holds a completion indicator
isTaskComplete(response) == response = DoneText

countFunctionCalls(stps) ==
  Cardinality({i \in 1..Len(stps) : stps[i].action # NoAction})

\* agent-utils isTaskComplete(steps)
isTaskCompleteSteps(stps) ==
  IF Len(stps) = 0 THEN FALSE
  ELSE LET lastStep == stps[Len(stps)]
       IN IF Truthy(lastStep.thought) /\ lastStep.action = NoAction THEN TRUE
          ELSE IF lastStep.observation # NoObservation /\ lastStep.observation.success THEN TRUE
          ELSE FALSE

\* the argument of StoppingConditions.maxFunctionCalls used in the model
MaxFunctionCallsArg == 1

\* config.stopCondition applied to a step history
stopCondition(which, stps) ==
  CASE which = "maxFunctionCalls" -> countFunctionCalls(stps) >= MaxFunctionCallsArg
    [] which = "answerProvided" -> isTaskCompleteSteps(stps)
    [] OTHER -> FALSE

\* this.config.maxReflections || 2
DefaultMaxReflections == 2
maxReflections == IF cfg.maxReflections = 0 THEN DefaultMaxReflections ELSE cfg.maxReflections

\* ------------------------------------------------- the agent's operations
\* the state the agent code works on; the operators below are the code's
\* statement sequences, each mapping a state to the state it leaves
W == [agent |-> agent, mgrs |-> mgrs, calls |-> calls]

NoStep == [absent |-> TRUE]
NoFin == [path |-> "none", prompts |-> 0, satisfied |-> FALSE]
\* a manual reflect() / replan() call: how many were made, how this one
\* ended and with what value, whether it sent a prompt, and the steps, the
\* plan and the position of the caller's runWithPlanning when it was made
NoRet ==
  [n |-> 0, outcome |-> "none", value |-> Undef, prompted |-> FALSE,
   stepsAt |-> <<>>, planAt |-> 0, afterPlanned |-> FALSE]

IdleCall ==
  [kind |-> "none", pc |-> "idle", iteration |-> 0, currentPrompt |-> TaskPrompt,
   mgrOf |-> 0, target |-> 0, inflight |-> NoStep, result |-> NoResult,
   prompts |-> 0, satisfied |-> FALSE, fin |-> NoFin, reruns |-> 0, made |-> {},
   stopCalled |-> FALSE, planStop |-> FALSE, observed |-> <<>>, ret |-> NoRet]

\* heap of SessionManager objects: "empty" has no underlying session yet,
\* "live" holds one, "destroyed" had its session destroyed; an object
\* without a live session that nothing refers to any more is garbage and
\* its identity ("free") is used again
RECURSIVE Trim(_)
Trim(ms) ==
  IF Len(ms) > 0 /\ ms[Len(ms)] = "free" THEN Trim(SubSeq(ms, 1, Len(ms) - 1)) ELSE ms

collect(w) ==
  LET refs == {w.agent.session}
                \cup {w.calls[d].mgrOf : d \in Calls}
                \cup {w.calls[d].target : d \in Calls}
      ms == [i \in 1..Len(w.mgrs) |->
               IF w.mgrs[i] # "live" /\ i \notin refs THEN "free" ELSE w.mgrs[i]]
  IN [w EXCEPT !.mgrs = Trim(ms)]

FreeIds(ms) == {i \in 1..Len(ms) : ms[i] = "free"}
newId(ms) ==
  IF FreeIds(ms) = {} THEN Len(ms) + 1
  ELSE CHOOSE i \in FreeIds(ms) : \A j \in FreeIds(ms) : i <= j

\* new SessionManager()
newManager(ms) ==
  IF newId(ms) > Len(ms) THEN Append(ms, "empty") ELSE [ms EXCEPT ![newId(ms)] = "empty"]

\* SessionManager.destroy on manager m
destroy(ms, m) == IF ms[m] = "live" THEN [ms EXCEPT ![m] = "destroyed"] ELSE ms

\* finallyBlock dropping the reference without destroying the session
finallyBlock_noDestroy(w) ==
  IF w.agent.session # 0
  THEN [w EXCEPT !.agent.session = 0]
  ELSE w

\* the finally block of run and of runWithPlanning
finallyBlock(w) ==
  IF w.agent.session # 0
  THEN [w EXCEPT !.mgrs = destroy(@, w.agent.session), !.agent.session = 0]
  ELSE w

\* this.steps = []: a new array, whose identity is one no result refers to
newSteps(w) ==
  LET used == {w.calls[d].result.stepsRef : d \in Calls}
      ref == CHOOSE i \in 1..(Cardinality(Calls) + 1) :
               i \notin used /\ \A j \in 1..(i - 1) : j \in used
  IN [w EXCEPT !.agent.steps = <<>>, !.agent.stepsRef = ref]

\* this.steps.push(step): the array is changed in place, so every result
\* that holds the same array sees the step
push(w, step) ==
  [w EXCEPT !.agent.steps = Append(@, step),
            !.calls = [d \in Calls |->
                         IF w.calls[d].result.stepsRef = w.agent.stepsRef
                         THEN [w.calls[d] EXCEPT !.result.steps = Append(@, step)]
                         ELSE w.calls[d]]]

\* beginRun leaving the cancellation flag as it finds it
beginRun_keepFlag(w0, c, prompt) ==
  LET w == newSteps(collect([w0 EXCEPT !.calls[c].mgrOf = 0]))
      m == newId(w.mgrs)
  IN [w EXCEPT !.agent.status = "running",
               !.mgrs = newManager(@),
               !.agent.session = m,
               !.calls[c].pc = "creating",
               !.calls[c].mgrOf = m,
               !.calls[c].made = @ \cup {m},
               !.calls[c].iteration = 0,
               !.calls[c].currentPrompt = prompt,
               !.calls[c].prompts = 0,
               !.calls[c].stopCalled = FALSE,
               !.calls[c].observed = <<>>]

\* run(task) up to the awaited session.create; stopCalled records whether
\* stop() has been called since (planStop: during the planning phase)
beginRun(w0, c, prompt) ==
  LET w == newSteps(collect([w0 EXCEPT !.calls[c].mgrOf = 0]))
      m == newId(w.mgrs)
  IN [w EXCEPT !.agent.status = "running",
               !.agent.shouldStop = FALSE,
               !.mgrs = newManager(@),
               !.agent.session = m,
               !.calls[c].pc = "creating",
               !.calls[c].mgrOf = m,
               !.calls[c].made = @ \cup {m},
               !.calls[c].iteration = 0,
               !.calls[c].currentPrompt = prompt,
               !.calls[c].prompts = 0,
               !.calls[c].stopCalled = FALSE,
               !.calls[c].observed = <<>>]

\* runWithPlanning: return of the result through its finally block
returnPlanning(w, c, res) ==
  LET w1 == finallyBlock(w)
  IN [w1 EXCEPT !.calls[c].pc = "done", !.calls[c].result = res]

\* catchPlanning leaving the status as it is
catchPlanning_keepStatus(w, c, err) ==
  returnPlanning(w, c,
                 [AgentResult("failed", w.agent.steps, Undef, err, Len(w.agent.steps))
                    EXCEPT !.stepsRef = w.agent.stepsRef])

\* runWithPlanning: its catch block
catchPlanning(w, c, err) ==
  returnPlanning([w EXCEPT !.agent.status = "failed"], c,
                 [AgentResult("failed", w.agent.steps, Undef, err, Len(w.agent.steps))
                    EXCEPT !.stepsRef = w.agent.stepsRef])

\* executeWithReflection from the resumption after `await this.run`: the
\* while loop with reflect() up to its prompt, and the next run up to its
\* session.create (`result` is dead from there on until run returns)
executeWithReflection(w, c) ==
  LET res == w.calls[c].result
  IN IF res.status # "completed" /\ w.agent.reflectionCount < maxReflections
        /\ ~w.agent.shouldStop
     THEN IF w.agent.session = 0 \/ Len(w.agent.steps) = 0
          THEN beginRun([w EXCEPT !.calls[c].reruns = @ + 1,
                                  !.calls[c].result = NoResult,
                                  !.calls[c].fin = NoFin], c,
                        ContinuationPrompt(NoStepsText))
          ELSE IF w.mgrs[w.agent.session] # "live"
               THEN catchPlanning(w, c, NoActiveSessionErr)
               ELSE [w EXCEPT !.calls[c].pc = "reflecting",
                              !.calls[c].target = w.agent.session]
     ELSE returnPlanning(w, c, res)

\* run: return of res through the finally block, to the caller or to the
\* `await this.run` of executeWithReflection
returnRun(w, c, res, path) ==
  LET w1 == finallyBlock(w)
      w2 == [w1 EXCEPT !.calls[c].result = [res EXCEPT !.stepsRef = w.agent.stepsRef],
                       !.calls[c].fin = [path |-> path, prompts |-> w.calls[c].prompts,
                                         satisfied |-> w.calls[c].satisfied],
                       !.calls[c].satisfied = FALSE,
                       !.calls[c].iteration = 0,
                       !.calls[c].currentPrompt = TaskPrompt,
                       !.calls[c].inflight = NoStep,
                       !.calls[c].target = 0,
                       !.calls[c].prompts = 0]
  IN IF w.calls[c].kind = "run"
     THEN [w2 EXCEPT !.calls[c].pc = "done"]
     ELSE [w2 EXCEPT !.calls[c].pc = "returned"]

\* catchRun reporting the loop counter as iterations
catchRun_loopCounter(w, c, err) ==
  returnRun([w EXCEPT !.agent.status = "failed"], c,
            AgentResult("failed", w.agent.steps, Undef, err, w.calls[c].iteration),
            "catch")

\* run: its catch block
catchRun(w, c, err) ==
  returnRun([w EXCEPT !.agent.status = "failed"], c,
            AgentResult("failed", w.agent.steps, Undef, err, Len(w.agent.steps)),
            "catch")

\* run: this.session.prompt(currentPrompt) up to the awaited model prompt
sendPrompt(w, c) ==
  LET s == w.agent.session
  IN IF s = 0 THEN catchRun(w, c, NoSessionErr)
     ELSE IF w.mgrs[s] # "live" THEN catchRun(w, c, NoActiveSessionErr)
     ELSE [w EXCEPT !.calls[c].pc = "prompting",
                    !.calls[c].target = s,
                    !.calls[c].prompts = @ + 1]

\* lastThought taking the first step's thought
lastThought_first(stps) == IF Len(stps) = 0 THEN Undef ELSE stps[1].thought

\* run: this.steps[this.steps.length - 1]?.thought
lastThought(stps) == IF Len(stps) = 0 THEN Undef ELSE stps[Len(stps)].thought

\* onStep not being called
onStep_skipped(w, c, step) == w

\* run: if (this.config.onStep) this.config.onStep(step); observed is the
\* sequence of steps the observer has been called with during the run
onStep(w, c, step) ==
  IF cfg.onStep THEN [w EXCEPT !.calls[c].observed = Append(@, step)] ELSE w

\* exitStatus not reading the cancellation flag
exitStatus_completed(w) == "completed"

\* run: this.status = this.shouldStop ? 'stopped' : 'completed'
exitStatus(w) == IF w.agent.shouldStop THEN "stopped" ELSE "completed"

\* loopHead with the budget test off by one
loopHead_offByOne(w, c) ==
  IF w.calls[c].iteration <= cfg.maxIterations /\ ~w.agent.shouldStop
  THEN sendPrompt([w EXCEPT !.calls[c].iteration = @ + 1], c)
  ELSE LET st == exitStatus(w)
           answer == lastThought(w.agent.steps)
       IN returnRun([w EXCEPT !.agent.status = st], c,
                    AgentResult(st, w.agent.steps, answer, Undef, w.calls[c].iteration),
                    "loop")

\* run: the while condition, then either the next iteration up to its
\* prompt or the statements after the loop
loopHead(w, c) ==
  IF w.calls[c].iteration < cfg.maxIterations /\ ~w.agent.shouldStop
  THEN sendPrompt([w EXCEPT !.calls[c].iteration = @ + 1], c)
  ELSE LET st == exitStatus(w)
           answer == lastThought(w.agent.steps)
       IN returnRun([w EXCEPT !.agent.status = st], c,
                    AgentResult(st, w.agent.steps, answer, Undef, w.calls[c].iteration),
                    "loop")

\* pushStep recording the step of the previous iteration number
pushStep_staleIteration(w, c, step, onStepOutcome) ==
  LET w1 == onStep(push(w, [step EXCEPT !.iteration = @ - 1]), c,
                   [step EXCEPT !.iteration = @ - 1])
  IN IF cfg.onStep /\ onStepOutcome = "throws"
     THEN catchRun(w1, c, OnStepErr)
     ELSE loopHead(w1, c)

\* run: end of the loop body: push the step, call onStep, loop
pushStep(w, c, step, onStepOutcome) ==
  LET w1 == onStep(push(w, step), c, step)
  IN IF cfg.onStep /\ onStepOutcome = "throws"
     THEN catchRun(w1, c, OnStepErr)
     ELSE loopHead(w1, c)

\* run: the function-call branch from the ToolResult on
afterExecute(w, c, thought, call, res, onStepOutcome) ==
  LET step == AgentStep(w.calls[c].iteration, thought, call, res)
      formattedResult == nextPrompt(call, res)
  IN pushStep([w EXCEPT !.calls[c].currentPrompt = formattedResult], c, step, onStepOutcome)

\* regularBranch returning early without recording the terminal step
regularBranch_noTerminalStep(w, c, regularResponse, onStepOutcome) ==
  LET step == AgentStep(w.calls[c].iteration, regularResponse, NoAction, NoObservation)
      complete == IF cfg.stopCondition # "none"
                  THEN stopCondition(cfg.stopCondition, w.agent.steps)
                  ELSE isTaskComplete(OrElse(regularResponse, ""))
  IN IF complete
     THEN LET w1 == [w EXCEPT !.agent.status = "completed", !.calls[c].satisfied = TRUE]
          IN returnRun(w1, c,
                       AgentResult("completed", w1.agent.steps, regularResponse,
                                   Undef, w.calls[c].iteration),
                       "early")
     ELSE pushStep([w EXCEPT !.calls[c].currentPrompt = ContinuePrompt], c, step, onStepOutcome)

\* run: the regular-response branch
regularBranch(w, c, regularResponse, onStepOutcome) ==
  LET step == AgentStep(w.calls[c].iteration, regularResponse, NoAction, NoObservation)
      complete == IF cfg.stopCondition # "none"
                  THEN stopCondition(cfg.stopCondition, w.agent.steps)
                  ELSE isTaskComplete(OrElse(regularResponse, ""))
  IN IF complete
     THEN LET w1 == onStep([push(w, step) EXCEPT !.agent.status = "completed",
                                                 !.calls[c].satisfied = TRUE], c, step)
          IN IF cfg.onStep /\ onStepOutcome = "throws"
             THEN catchRun(w1, c, OnStepErr)
             ELSE returnRun(w1, c,
                            AgentResult("completed", w1.agent.steps, regularResponse,
                                        Undef, w.calls[c].iteration),
                            "early")
     ELSE pushStep([w EXCEPT !.calls[c].currentPrompt = ContinuePrompt], c, step, onStepOutcome)

\* run: from the model's response to the next suspension
onResponse(w, c, response, handlerOutcome, onStepOutcome) ==
  LET parsed == parseFunctionCall(response)
  IN IF parsed.functionCall # NoCall
     THEN LET pre == beforeHandler(parsed.functionCall, AgentFunctions)
          IN IF pre.invoke
             THEN [w EXCEPT !.calls[c].pc = "executing",
                            !.calls[c].inflight = [thought |-> parsed.reasoning,
                                                   action |-> parsed.functionCall,
                                                   outcome |-> handlerOutcome]]
             ELSE afterExecute(w, c, parsed.reasoning, parsed.functionCall,
                               pre.result, onStepOutcome)
     ELSE regularBranch(w, c, parsed.regularResponse, onStepOutcome)

\* run: from the settlement of the handler to the next suspension
onHandlerSettled(w, c, onStepOutcome) ==
  LET fl == w.calls[c].inflight
      r == afterHandler(fl.outcome)
  IN IF r.threw
     THEN catchRun(w, c, r.result.error)
     ELSE afterExecute([w EXCEPT !.calls[c].inflight = NoStep], c,
                       fl.thought, fl.action, r.result, onStepOutcome)

\* ---------------------------------------------------------------- actions
Commit(w) ==
  /\ Len(w.mgrs) <= MaxMgr
  /\ \A c \in Calls : w.calls[c].reruns <= MaxReruns
  /\ agent' = w.agent
  /\ mgrs' = w.mgrs
  /\ calls' = w.calls
  /\ UNCHANGED <<cfg, exec, sp, codec, reg, batch, sm, strategy, waiting, retrying>>

NoneInFlight == \A d \in Calls : calls[d].pc \in {"idle", "done"}

\* the invocation record of a caller that awaits each call before the next
Caller == "c1"

OnStepOutcomes == {"returns", "throws"}

\* the caller invokes agent.run(task)
StartRun(c) ==
  /\ NoneInFlight
  /\ Commit(beginRun([W EXCEPT !.calls[c] = [IdleCall EXCEPT !.kind = "run"]], c, TaskPrompt))

\* the caller invokes agent.runWithPlanning(task); with planning enabled
\* it runs up to the awaited manager.create of createPlanningSession
StartPlanning(c) ==
  /\ NoneInFlight
  /\ IF ~cfg.enablePlanning
     THEN Commit(beginRun([W EXCEPT !.calls[c] = [IdleCall EXCEPT !.kind = "run"]], c, TaskPrompt))
     ELSE LET w == newSteps(collect([W EXCEPT !.calls[c] = IdleCall]))
              m == newId(w.mgrs)
          IN Commit([w EXCEPT !.agent.status = "running",
                              !.agent.shouldStop = FALSE,
                              !.mgrs = newManager(@),
                              !.calls[c] = [IdleCall EXCEPT !.kind = "plan",
                                                            !.pc = "planCreating",
                                                            !.mgrOf = m,
                                                            !.made = {m}]])

\* createPlanningSession: manager.create settles; on success createPlan
\* runs up to its awaited prompt
PlanCreateSettles(c) ==
  /\ calls[c].pc = "planCreating"
  /\ \E ok \in BOOLEAN :
       LET m == calls[c].mgrOf
       IN IF ok
          THEN Commit([W EXCEPT !.mgrs[m] = "live",
                                !.agent.session = m,
                                !.calls[c].pc = "planning",
                                !.calls[c].target = m])
          ELSE Commit(catchPlanning(W, c, CreateErr))

\* createPlan: the planning prompt settles; on success the plan is stored
\* and executeWithReflection starts the first run
PlanSettles(c) ==
  /\ calls[c].pc = "planning"
  /\ \E ok \in BOOLEAN :
       IF ok
       THEN Commit(beginRun([W EXCEPT !.agent.currentPlan = 1,
                                      !.calls[c].target = 0], c, TaskPrompt))
       ELSE Commit(catchPlanning(W, c, PromptErr))

\* run: session.create settles
CreateSettles(c) ==
  /\ calls[c].pc = "creating"
  /\ \E ok \in BOOLEAN :
       IF ok
       THEN Commit(loopHead([W EXCEPT !.mgrs[calls[c].mgrOf] = "live"], c))
       ELSE Commit(catchRun(W, c, CreateErr))

\* executeWithReflection resumes with the result of the awaited run
RunReturns(c) ==
  /\ calls[c].pc = "returned"
  /\ Commit(executeWithReflection(W, c))

\* run: the awaited session.prompt rejects
PromptFails(c) ==
  /\ calls[c].pc = "prompting"
  /\ Commit(catchRun(W, c, PromptErr))

\* run: the awaited session.prompt resolves with a response
PromptSettles(c) ==
  /\ calls[c].pc = "prompting"
  /\ \E response \in Responses, handlerOutcome \in HandlerOutcomes,
        onStepOutcome \in OnStepOutcomes :
       Commit(onResponse(W, c, response, handlerOutcome, onStepOutcome))

\* run: the awaited handler settles
HandlerSettles(c) ==
  /\ calls[c].pc = "executing"
  /\ \E onStepOutcome \in OnStepOutcomes :
       Commit(onHandlerSettled(W, c, onStepOutcome))

\* the caller invokes agent.stop()
Stop ==
  /\ agent' = [agent EXCEPT !.shouldStop = TRUE]
  /\ calls' = [c \in Calls |->
                IF calls[c].pc \in {"idle", "done"} THEN calls[c]
                ELSE [calls[c] EXCEPT
                        !.stopCalled = TRUE,
                        !.planStop = @ \/ calls[c].pc \in {"planCreating", "planning"}]]
  /\ UNCHANGED <<cfg, mgrs, exec, sp, codec, reg, batch, sm, strategy, waiting, retrying>>

Configs ==
  [maxIterations : 1..MaxIter,
   maxReflections : 0..MaxRefl,
   enablePlanning : BOOLEAN,
   stopCondition : {"none", "answerProvided", "maxFunctionCalls"},
   onStep : BOOLEAN]

\* the agent after its constructor
NewAgent ==
  /\ agent = [session |-> 0, status |-> "idle", steps |-> <<>>, stepsRef |-> 1,
              shouldStop |-> FALSE,
              currentPlan |-> 0, reflectionCount |-> 0]
  /\ mgrs = <<>>
  /\ calls = [c \in Calls |-> IdleCall]

NoExec == [phase |-> "none"]
NoSp == [pc |-> "none"]
NoCodec == [phase |-> "none"]
NoReg == [phase |-> "none"]
NoBatch == [phase |-> "none"]
NoSm == [phase |-> "none"]
NoStrategy == [phase |-> "none"]
NoWaiting == [phase |-> "none"]
NoRetrying == [phase |-> "none"]

Init ==
  /\ cfg \in Configs
  /\ NewAgent
  /\ strategy = NoStrategy /\ waiting = NoWaiting /\ retrying = NoRetrying
  /\ exec = NoExec
  /\ sp = NoSp
  /\ codec = NoCodec
  /\ reg = NoReg /\ batch = NoBatch /\ sm = NoSm

Next ==
  \/ StartRun(Caller)
  \/ StartPlanning(Caller)
  \/ PlanCreateSettles(Caller)
  \/ PlanSettles(Caller)
  \/ CreateSettles(Caller)
  \/ PromptFails(Caller)
  \/ PromptSettles(Caller)
  \/ HandlerSettles(Caller)
  \/ RunReturns(Caller)
  \/ Stop

vars == <<cfg, agent, mgrs, calls, exec, sp, codec, reg, batch, sm, strategy, waiting,
         retrying>>

Spec == Init /\ [][Next]_vars

\* --------------------------------- overlapping run calls on one agent
\* the caller invokes agent.run(task) without awaiting the call it made
\* before (each invocation record is used once)
StartOverlappingRun(c) ==
  /\ calls[c].pc = "idle"
  /\ Commit(beginRun([W EXCEPT !.calls[c] = [IdleCall EXCEPT !.kind = "run"]], c, TaskPrompt))

InitOverlap ==
  /\ cfg \in [maxIterations : 1..MaxIter, maxReflections : {0}, enablePlanning : {FALSE},
              stopCondition : {"none"}, onStep : {FALSE}]
  /\ NewAgent
  /\ strategy = NoStrategy /\ waiting = NoWaiting /\ retrying = NoRetrying
  /\ exec = NoExec
  /\ sp = NoSp
  /\ codec = NoCodec
  /\ reg = NoReg /\ batch = NoBatch /\ sm = NoSm

NextOverlap ==
  \E c \in Calls :
    \/ StartOverlappingRun(c)
    \/ CreateSettles(c)
    \/ PromptFails(c)
    \/ PromptSettles(c)
    \/ HandlerSettles(c)

SpecOverlap == InitOverlap /\ [][NextOverlap]_vars

\* ---------------------------------------- manual reflect() and replan()
\* reflect / replan calls the caller makes on the agent
MaxManual == 2

\* the invocation record used for the manual calls
Manual == "c2"

manualReturn(w, c, outcome, value) ==
  [w EXCEPT !.calls[c].pc = "done",
            !.calls[c].target = 0,
            !.calls[c].ret.outcome = outcome,
            !.calls[c].ret.value = value]

\* a manual call sends its prompt through the session manager, whose prompt
\* throws at once without a session
manualPrompt(w, c) ==
  IF w.mgrs[w.agent.session] # "live"
  THEN manualReturn(w, c, "threw", NoActiveSessionErr)
  ELSE [w EXCEPT !.calls[c].pc = "manualPrompting",
                 !.calls[c].target = w.agent.session,
                 !.calls[c].ret.prompted = TRUE]

\* reflect() up to its awaited prompt
reflect(w, c) ==
  IF w.agent.session = 0 \/ Len(w.agent.steps) = 0
  THEN manualReturn(w, c, "returned", NoStepsText)
  ELSE manualPrompt(w, c)

\* replan() up to its awaited prompt
replan(w, c) ==
  IF w.agent.session = 0
  THEN manualReturn(w, c, "threw", NoReplanSessionErr)
  ELSE manualPrompt(w, c)

\* the prompt of reflect() / replan() settles
manualSettled(w, c, ok) ==
  IF ~ok THEN manualReturn(w, c, "threw", PromptErr)
  ELSE IF w.calls[c].kind = "reflect"
  THEN manualReturn([w EXCEPT !.agent.reflectionCount = @ + 1], c, "returned", ReflectionText)
  ELSE manualReturn([w EXCEPT !.agent.currentPlan = @ + 1], c, "returned", "plan")

ManualCall(kind) ==
  [IdleCall EXCEPT !.kind = kind,
                   !.ret = [NoRet EXCEPT !.n = calls[Manual].ret.n + 1,
                                         !.stepsAt = agent.steps,
                                         !.planAt = agent.currentPlan,
                                         !.afterPlanned = /\ calls[Caller].kind = "plan"
                                                          /\ calls[Caller].pc = "done"]]

\* the caller invokes agent.reflect()
CallReflect ==
  /\ calls[Manual].pc \in {"idle", "done"}
  /\ calls[Manual].ret.n < MaxManual
  /\ Commit(reflect([W EXCEPT !.calls[Manual] = ManualCall("reflect")], Manual))

\* the caller invokes agent.replan(task)
CallReplan ==
  /\ calls[Manual].pc \in {"idle", "done"}
  /\ calls[Manual].ret.n < MaxManual
  /\ Commit(replan([W EXCEPT !.calls[Manual] = ManualCall("replan")], Manual))

ManualPromptSettles ==
  /\ calls[Manual].pc = "manualPrompting"
  /\ \E ok \in BOOLEAN : Commit(manualSettled(W, Manual, ok))

InitManual ==
  /\ cfg \in [maxIterations : {2}, maxReflections : {1}, enablePlanning : {TRUE},
              stopCondition : {"none"}, onStep : {FALSE}]
  /\ NewAgent
  /\ strategy = NoStrategy /\ waiting = NoWaiting /\ retrying = NoRetrying
  /\ exec = NoExec
  /\ sp = NoSp
  /\ codec = NoCodec
  /\ reg = NoReg /\ batch = NoBatch /\ sm = NoSm

NextManual ==
  \/ (calls[Caller].pc = "idle" /\ StartPlanning(Caller))
  \/ PlanCreateSettles(Caller)
  \/ PlanSettles(Caller)
  \/ CreateSettles(Caller)
  \/ PromptFails(Caller)
  \/ PromptSettles(Caller)
  \/ HandlerSettles(Caller)
  \/ RunReturns(Caller)
  \/ CallReflect
  \/ CallReplan
  \/ ManualPromptSettles

SpecManual == InitManual /\ [][NextManual]_vars

\* ------------------------------------ executeFunctionCall on its own
\* parameter schemas a FunctionDefinition may carry
Schemas ==
  [type : {"object", "string"},
   hasProperties : BOOLEAN,
   properties : SUBSET ArgNames,
   required : {<<>>, <<"x">>, <<"y">>, <<"x", "y">>}]

\* FunctionCall values produced by the parser
FunctionCalls == [name : {"f", "nope"}, args : SUBSET (ArgNames \cup {"z"})]

InitExec ==
  /\ cfg = [maxIterations |-> 1, maxReflections |-> 0, enablePlanning |-> FALSE,
            stopCondition |-> "none", onStep |-> FALSE]
  /\ NewAgent
  /\ strategy = NoStrategy /\ waiting = NoWaiting /\ retrying = NoRetrying
  /\ sp = NoSp
  /\ codec = NoCodec
  /\ reg = NoReg /\ batch = NoBatch /\ sm = NoSm
  /\ \E parameters \in Schemas, call \in FunctionCalls, outcome \in HandlerOutcomes :
       exec = [phase |-> "called", registry |-> [f |-> parameters], call |-> call,
               outcome |-> outcome, invoked |-> FALSE, threw |-> FALSE,
               result |-> Failure(Undef)]

\* executeFunctionCall runs up to the awaited handler, or returns
ExecuteFunctionCall ==
  /\ exec.phase = "called"
  /\ LET pre == beforeHandler(exec.call, exec.registry)
     IN exec' = IF pre.invoke
                THEN [exec EXCEPT !.phase = "handler", !.invoked = TRUE]
                ELSE [exec EXCEPT !.phase = "returned", !.result = pre.result]
  /\ UNCHANGED <<cfg, agent, mgrs, calls, sp, codec, reg, batch, sm, strategy, waiting, retrying>>

\* the awaited handler settles and executeFunctionCall returns
ExecuteSettles ==
  /\ exec.phase = "handler"
  /\ LET r == afterHandler(exec.outcome)
     IN exec' = [exec EXCEPT !.phase = IF r.threw THEN "threw" ELSE "returned",
                             !.threw = r.threw,
                             !.result = r.result]
  /\ UNCHANGED <<cfg, agent, mgrs, calls, sp, codec, reg, batch, sm, strategy, waiting, retrying>>

NextExec == ExecuteFunctionCall \/ ExecuteSettles

SpecExec == InitExec /\ [][NextExec]_vars

\* ------------------------------- re-injection of a tool result into a run
\* values a handler may return besides "v": 0, false, '' and null
FalsyReturns == {"0", "false", "", "null"}

ReinjectOutcomes ==
  HandlerOutcomes \cup {[kind |-> "returns", value |-> v] : v \in FalsyReturns}

InitReinject ==
  /\ cfg = [maxIterations |-> 1, maxReflections |-> 0, enablePlanning |-> FALSE,
            stopCondition |-> "none", onStep |-> FALSE]
  /\ NewAgent
  /\ strategy = NoStrategy /\ waiting = NoWaiting /\ retrying = NoRetrying
  /\ sp = NoSp
  /\ codec = NoCodec
  /\ reg = NoReg /\ batch = NoBatch /\ sm = NoSm
  /\ \E call \in FunctionCalls, outcome \in ReinjectOutcomes :
       exec = [phase |-> "called", registry |-> AgentFunctions, call |-> call,
               outcome |-> outcome, invoked |-> FALSE, threw |-> FALSE,
               result |-> Failure(Undef), currentPrompt |-> TaskPrompt]

\* run resumes with the ToolResult and prepares the next prompt
PreparePrompt ==
  /\ exec.phase = "returned"
  /\ exec' = [exec EXCEPT !.phase = "prompted",
                          !.currentPrompt = nextPrompt(exec.call, exec.result)]
  /\ UNCHANGED <<cfg, agent, mgrs, calls, sp, codec, reg, batch, sm, strategy, waiting, retrying>>

NextReinject == ExecuteFunctionCall \/ ExecuteSettles \/ PreparePrompt

SpecReinject == InitReinject /\ [][NextReinject]_vars

\* --------------------------------------------------- promptWithStructure
MaxRetriesGiven == 2   \* largest maxRetries passed in the options

\* maxRetries = 3 when the option is not given
DefaultMaxRetries == 3

SessionErrorType == "SessionError"
StructuredOutputErrorType == "StructuredOutputError"
ParseErr == "StructuredOutputError: Failed to parse JSON response"
ZodErr == "ZodError"

\* options.maxRetries: not given, or a number
MaxRetriesOptions ==
  {[given |-> FALSE, value |-> 0]} \cup {[given |-> TRUE, value |-> n] : n \in 0..MaxRetriesGiven}

\* model replies: whether the cleaned text parses as JSON, and whether the
\* parsed value matches the caller's schema
Replies ==
  {[json |-> FALSE, matches |-> FALSE, value |-> "not json"],
   [json |-> TRUE, matches |-> FALSE, value |-> "{}"],
   [json |-> TRUE, matches |-> TRUE, value |-> "{name: Ann}"]}
Rejected == [json |-> FALSE, matches |-> FALSE, value |-> "rejected"]

\* parseJSONResponse: the value, or the StructuredOutputError it throws
parseJSONResponse(reply) ==
  IF reply.json THEN [ok |-> TRUE, value |-> reply.value, error |-> NoError]
  ELSE [ok |-> FALSE, value |-> Undef, error |-> ParseErr]

\* zodSchema.parse(parsed)
zodParse(reply) ==
  IF reply.matches THEN [ok |-> TRUE, value |-> reply.value, error |-> NoError]
  ELSE [ok |-> FALSE, value |-> Undef, error |-> ZodErr]

\* the try block from the response on: parse, and validate with Zod if the
\* schema is a Zod type
tryBlock(schemaKind, reply) ==
  LET parsed == parseJSONResponse(reply)
  IN IF ~parsed.ok THEN parsed
     ELSE IF schemaKind = "zod" THEN zodParse(reply)
     ELSE parsed

Logged(s, prompt, reply, wasParsed) ==
  [s EXCEPT !.log = Append(@, [prompt |-> prompt, reply |-> reply, parsed |-> wasParsed])]

\* the for loop's test before an attempt: send the full prompt, or throw
forLoop(s) ==
  IF s.attempt < s.maxRetries
  THEN [s EXCEPT !.pc = "awaitFull", !.sentFull = @ + 1]
  ELSE [s EXCEPT !.pc = "threw",
                 !.thrown = [type |-> StructuredOutputErrorType, cause |-> s.lastError]]

\* the catch block up to the awaited feedback prompt
catchBlock(s, error) ==
  LET s1 == [s EXCEPT !.lastError = error]
  IN IF s1.attempt < s1.maxRetries - 1
     THEN [s1 EXCEPT !.pc = "awaitFeedback", !.sentFeedback = @ + 1]
     ELSE forLoop([s1 EXCEPT !.attempt = @ + 1])

InitStruct ==
  /\ cfg = [maxIterations |-> 1, maxReflections |-> 0, enablePlanning |-> FALSE,
            stopCondition |-> "none", onStep |-> FALSE]
  /\ NewAgent
  /\ strategy = NoStrategy /\ waiting = NoWaiting /\ retrying = NoRetrying
  /\ exec = NoExec
  /\ codec = NoCodec
  /\ reg = NoReg /\ batch = NoBatch /\ sm = NoSm
  /\ \E opt \in MaxRetriesOptions, schemaKind \in {"zod", "plain"} :
       sp = [pc |-> "called", schemaKind |-> schemaKind,
             maxRetries |-> IF opt.given THEN opt.value ELSE DefaultMaxRetries,
             attempt |-> 0, lastError |-> NoError, sentFull |-> 0, sentFeedback |-> 0,
             parses |-> 0, log |-> <<>>, returned |-> Undef,
             thrown |-> [type |-> Undef, cause |-> NoError]]

\* promptWithStructure is called and runs up to its first awaited prompt
PromptWithStructure ==
  /\ sp.pc = "called"
  /\ sp' = forLoop(sp)
  /\ UNCHANGED <<cfg, agent, mgrs, calls, exec, codec, reg, batch, sm, strategy, waiting, retrying>>

\* the awaited session.prompt(fullPrompt) rejects
FullPromptFails ==
  /\ sp.pc = "awaitFull"
  /\ sp' = catchBlock(Logged(sp, "full", Rejected, FALSE), PromptErr)
  /\ UNCHANGED <<cfg, agent, mgrs, calls, exec, codec, reg, batch, sm, strategy, waiting, retrying>>

\* the awaited session.prompt(fullPrompt) resolves
FullPromptSettles ==
  /\ sp.pc = "awaitFull"
  /\ \E reply \in Replies :
       LET s1 == [Logged(sp, "full", reply, TRUE) EXCEPT !.parses = @ + 1]
           r == tryBlock(sp.schemaKind, reply)
       IN sp' = IF r.ok
                THEN [s1 EXCEPT !.pc = "returned", !.returned = r.value]
                ELSE catchBlock(s1, r.error)
  /\ UNCHANGED <<cfg, agent, mgrs, calls, exec, codec, reg, batch, sm, strategy, waiting, retrying>>

\* the awaited session.prompt(errorFeedback) in the catch block rejects
FeedbackFails ==
  /\ sp.pc = "awaitFeedback"
  /\ sp' = [Logged(sp, "feedback", Rejected, FALSE) EXCEPT
              !.pc = "threw",
              !.thrown = [type |-> SessionErrorType, cause |-> PromptErr]]
  /\ UNCHANGED <<cfg, agent, mgrs, calls, exec, codec, reg, batch, sm, strategy, waiting, retrying>>

\* the awaited session.prompt(errorFeedback) resolves: next attempt
FeedbackSettles ==
  /\ sp.pc = "awaitFeedback"
  /\ \E reply \in Replies :
       sp' = forLoop([Logged(sp, "feedback", reply, FALSE) EXCEPT !.attempt = @ + 1])
  /\ UNCHANGED <<cfg, agent, mgrs, calls, exec, codec, reg, batch, sm, strategy, waiting, retrying>>

NextStruct ==
  \/ PromptWithStructure
  \/ FullPromptFails
  \/ FullPromptSettles
  \/ FeedbackFails
  \/ FeedbackSettles

SpecStruct == InitStruct /\ [][NextStruct]_vars

\* ------------------------------------------- parseFunctionCall on its own
MaxText == 5   \* longest response text, in tokens

\* response texts are token sequences: braces, other text, a comma, and
\* the object members "functionCall":<truthy>, "functionCall":0 and
\* "reasoning":"why"
Tokens == {"{", "}", "a", ",", "f", "z", "r"}
Members == {"f", "z", "r"}

RECURSIVE Texts(_)
Texts(n) ==
  IF n = 0 THEN {<<>>}
  ELSE Texts(n - 1) \cup {Append(t, k) : t \in {u \in Texts(n - 1) : Len(u) = n - 1}, k \in Tokens}

\* the text as one string
RECURSIVE Join(_)
Join(text) == IF text = <<>> THEN "" ELSE Head(text) \o Join(Tail(text))

\* response.match(/\{[\s\S]*\}/): from the first "{" to the last "}"
jsonMatch(text) ==
  LET opens == {i \in 1..Len(text) : text[i] = "{"}
      closes == {i \in 1..Len(text) : text[i] = "}"}
      first == CHOOSE i \in opens : \A j \in opens : i <= j
      last == CHOOSE i \in closes : \A j \in closes : i >= j
  IN IF opens = {} \/ closes = {} THEN [found |-> FALSE, text |-> <<>>]
     ELSE IF last < first THEN [found |-> FALSE, text |-> <<>>]
     ELSE [found |-> TRUE, text |-> SubSeq(text, first, last)]

\* JSON.parse of a matched {...}: members separated by commas, a repeated
\* key keeping its last value; ok = FALSE stands for the SyntaxError
JSONParse(m) ==
  LET inner == SubSeq(m, 2, Len(m) - 1)
      wellFormed ==
        \/ inner = <<>>
        \/ /\ Len(inner) % 2 = 1
           /\ \A i \in 1..Len(inner) :
                IF i % 2 = 1 THEN inner[i] \in Members ELSE inner[i] = ","
      calls_ == {i \in 1..Len(inner) : inner[i] \in {"f", "z"}}
      lastCall == CHOOSE i \in calls_ : \A j \in calls_ : i >= j
  IN [ok |-> wellFormed,
      functionCall |-> IF wellFormed /\ calls_ # {} /\ inner[lastCall] = "f"
                       THEN [value |-> "f"] ELSE NoCall,
      reasoning |-> IF wellFormed /\ \E i \in 1..Len(inner) : inner[i] = "r"
                    THEN "why" ELSE Undef]

\* what the regular expression and JSON.parse make of a response text
Lex(text) ==
  LET m == jsonMatch(text)
      j == JSONParse(m.text)
  IN [raw |-> Join(text), braces |-> m.found, parses |-> m.found /\ j.ok,
      functionCall |-> IF m.found THEN j.functionCall ELSE NoCall,
      reasoning |-> IF m.found THEN j.reasoning ELSE Undef]

InitParse ==
  /\ cfg = [maxIterations |-> 1, maxReflections |-> 0, enablePlanning |-> FALSE,
            stopCondition |-> "none", onStep |-> FALSE]
  /\ NewAgent
  /\ strategy = NoStrategy /\ waiting = NoWaiting /\ retrying = NoRetrying
  /\ exec = NoExec
  /\ sp = NoSp
  /\ reg = NoReg /\ batch = NoBatch /\ sm = NoSm
  /\ \E text \in Texts(MaxText) :
       codec = [phase |-> "called", text |-> text, out |-> Parsed(NoCall, Undef, Undef)]

\* parseFunctionCall(response) is called and returns or throws
ParseFunctionCall ==
  /\ codec.phase = "called"
  /\ LET out == parseFunctionCall(Lex(codec.text))
     IN codec' = [codec EXCEPT !.phase = IF out.threw THEN "threw" ELSE "returned",
                               !.out = out]
  /\ UNCHANGED <<cfg, agent, mgrs, calls, exec, sp, reg, batch, sm, strategy, waiting, retrying>>

NextParse == ParseFunctionCall

SpecParse == InitParse /\ [][NextParse]_vars

\* -------------------------------------------------------- FunctionRegistry
\* number of register / unregister / clear calls made on the registry
MaxRegOps == 4

RegNames == {"f", "g"}

\* FunctionDefinition values handed to the registry
Definitions ==
  [name : RegNames, description : {"d1", "d2"}, parameters : {"schema"},
   handler : {"handler"}]

NoDefinition == [absent |-> TRUE]

\* the Map `functions` is a sequence of its values in the Map's iteration
\* order; keyIndex is the position of a key, 0 when the Map has no such key
RECURSIVE keyIndex(_, _, _)
keyIndex(functions, name, i) ==
  IF i > Len(functions) THEN 0
  ELSE IF functions[i].name = name THEN i
  ELSE keyIndex(functions, name, i + 1)

has(functions, name) == keyIndex(functions, name, 1) # 0

get(functions, name) ==
  IF has(functions, name) THEN functions[keyIndex(functions, name, 1)] ELSE NoDefinition

\* Map.delete
unregister(functions, name) == SelectSeq(functions, LAMBDA d : d.name # name)

\* register moving an overwritten name to the end of the Map
register_reinsert(functions, definition) ==
  Append(unregister(functions, definition.name), definition)

\* Map.set: a new key goes to the end, an existing key keeps its position
register(functions, definition) ==
  IF has(functions, definition.name)
  THEN [functions EXCEPT ![keyIndex(functions, definition.name, 1)] = definition]
  ELSE Append(functions, definition)

RECURSIVE registerMultiple(_, _, _)
registerMultiple(functions, definitions, i) ==
  IF i > Len(definitions) THEN functions
  ELSE registerMultiple(register(functions, definitions[i]), definitions, i + 1)

clear(functions) == <<>>

list(functions) == functions

toJSON(functions) ==
  [i \in 1..Len(list(functions)) |->
     [name |-> list(functions)[i].name,
      description |-> list(functions)[i].description,
      parameters |-> list(functions)[i].parameters]]

\* history of the calls: clock counts the mutating calls, latest[n] is the
\* definition of the last register call for n since n was last removed,
\* since[n] the time of the first and at[n] of the last such call, and json
\* the values returned by the toJSON calls made since the last mutation
noteRegister(r, definition) ==
  [r EXCEPT !.clock = @ + 1,
            !.latest[definition.name] = definition,
            !.since[definition.name] =
              IF r.latest[definition.name] = NoDefinition THEN r.clock + 1 ELSE @,
            !.at[definition.name] = r.clock + 1,
            !.json = <<>>]

RECURSIVE noteRegisterMultiple(_, _, _)
noteRegisterMultiple(r, definitions, i) ==
  IF i > Len(definitions) THEN r
  ELSE noteRegisterMultiple(noteRegister(r, definitions[i]), definitions, i + 1)

noteRemoved(r, names) ==
  [r EXCEPT !.clock = @ + 1,
            !.latest = [n \in RegNames |-> IF n \in names THEN NoDefinition ELSE @[n]],
            !.since = [n \in RegNames |-> IF n \in names THEN 0 ELSE @[n]],
            !.at = [n \in RegNames |-> IF n \in names THEN 0 ELSE @[n]],
            !.json = <<>>]

InitRegistry ==
  /\ cfg = [maxIterations |-> 1, maxReflections |-> 0, enablePlanning |-> FALSE,
            stopCondition |-> "none", onStep |-> FALSE]
  /\ NewAgent
  /\ strategy = NoStrategy /\ waiting = NoWaiting /\ retrying = NoRetrying
  /\ exec = NoExec /\ sp = NoSp /\ codec = NoCodec
  /\ batch = NoBatch /\ sm = NoSm
  /\ reg = [phase |-> "ready", functions |-> <<>>, clock |-> 0,
            latest |-> [n \in RegNames |-> NoDefinition],
            since |-> [n \in RegNames |-> 0],
            at |-> [n \in RegNames |-> 0],
            json |-> <<>>]

Register ==
  /\ reg.clock < MaxRegOps
  /\ \E definition \in Definitions :
       reg' = [noteRegister(reg, definition) EXCEPT
                 !.functions = register(reg.functions, definition)]
  /\ UNCHANGED <<cfg, agent, mgrs, calls, exec, sp, codec, batch, sm, strategy, waiting, retrying>>

RegisterMultiple ==
  /\ \E n \in {0, 2} : \E definitions \in [1..n -> Definitions] :
       /\ reg.clock + n <= MaxRegOps
       /\ reg' = [noteRegisterMultiple(reg, definitions, 1) EXCEPT
                    !.functions = registerMultiple(reg.functions, definitions, 1)]
  /\ UNCHANGED <<cfg, agent, mgrs, calls, exec, sp, codec, batch, sm, strategy, waiting, retrying>>

Unregister ==
  /\ reg.clock < MaxRegOps
  /\ \E name \in RegNames :
       reg' = [noteRemoved(reg, {name}) EXCEPT
                 !.functions = unregister(reg.functions, name)]
  /\ UNCHANGED <<cfg, agent, mgrs, calls, exec, sp, codec, batch, sm, strategy, waiting, retrying>>

Clear ==
  /\ reg.clock < MaxRegOps
  /\ reg' = [noteRemoved(reg, RegNames) EXCEPT !.functions = clear(reg.functions)]
  /\ UNCHANGED <<cfg, agent, mgrs, calls, exec, sp, codec, batch, sm, strategy, waiting, retrying>>

\* toJSON is called; json keeps the first and the latest value returned
ToJSON ==
  /\ reg' = [reg EXCEPT !.json = IF Len(@) = 0 THEN <<toJSON(reg.functions)>>
                                 ELSE <<@[1], toJSON(reg.functions)>>]
  /\ UNCHANGED <<cfg, agent, mgrs, calls, exec, sp, codec, batch, sm, strategy, waiting, retrying>>

NextRegistry == Register \/ RegisterMultiple \/ Unregister \/ Clear \/ ToJSON

SpecRegistry == InitRegistry /\ [][NextRegistry]_vars

\* ----------------------------------------------------- executeFunctionCalls
\* length of the calls array
MaxBatch == 3

\* FunctionCall values of a batch: a valid call, one lacking the required
\* argument, one naming an unregistered function
BatchCalls ==
  {[name |-> "f", args |-> {"x"}], [name |-> "f", args |-> {}],
   [name |-> "nope", args |-> {"x"}]}

\* results.push(result) leaving the loop after a failed call
pushResult_stopOnFailure(b, result) ==
  [b EXCEPT !.phase = "loop",
            !.results = Append(@, result),
            !.i = IF result.success THEN @ + 1 ELSE Len(b.calls) + 1]

\* results.push(result), and the for loop moves on to the next call
pushResult(b, result) ==
  [b EXCEPT !.phase = "loop", !.results = Append(@, result), !.i = @ + 1]

InitBatch ==
  /\ cfg = [maxIterations |-> 1, maxReflections |-> 0, enablePlanning |-> FALSE,
            stopCondition |-> "none", onStep |-> FALSE]
  /\ NewAgent
  /\ strategy = NoStrategy /\ waiting = NoWaiting /\ retrying = NoRetrying
  /\ exec = NoExec /\ sp = NoSp /\ codec = NoCodec
  /\ reg = NoReg /\ sm = NoSm
  /\ \E n \in 0..MaxBatch :
       \E cs \in [1..n -> BatchCalls], outcomes \in [1..n -> HandlerOutcomes] :
         batch = [phase |-> "loop", calls |-> cs, outcomes |-> outcomes,
                  registry |-> AgentFunctions, i |-> 1, results |-> <<>>,
                  started |-> <<>>]

\* the loop calls executeFunctionCall for calls[i], which returns a result
\* at once or invokes the handler and awaits it; started logs each handler
\* invocation with the number of results present at that time
BatchExecuteNext ==
  /\ batch.phase = "loop"
  /\ batch.i <= Len(batch.calls)
  /\ LET pre == beforeHandler(batch.calls[batch.i], batch.registry)
     IN batch' = IF pre.invoke
                 THEN [batch EXCEPT !.phase = "handler",
                                    !.started = Append(@, [call |-> batch.i,
                                                           results |-> Len(batch.results)])]
                 ELSE pushResult(batch, pre.result)
  /\ UNCHANGED <<cfg, agent, mgrs, calls, exec, sp, codec, reg, sm, strategy, waiting, retrying>>

\* the awaited handler settles and executeFunctionCall returns its result
BatchHandlerSettles ==
  /\ batch.phase = "handler"
  /\ batch' = pushResult(batch, afterHandler(batch.outcomes[batch.i]).result)
  /\ UNCHANGED <<cfg, agent, mgrs, calls, exec, sp, codec, reg, sm, strategy, waiting, retrying>>

\* the loop is over: return results
BatchReturns ==
  /\ batch.phase = "loop"
  /\ batch.i > Len(batch.calls)
  /\ batch' = [batch EXCEPT !.phase = "returned"]
  /\ UNCHANGED <<cfg, agent, mgrs, calls, exec, sp, codec, reg, sm, strategy, waiting, retrying>>

NextBatch == BatchExecuteNext \/ BatchHandlerSettles \/ BatchReturns

SpecBatch == InitBatch /\ [][NextBatch]_vars

\* ------------------------------------------------ SessionManager on its own
\* number of calls made on the manager
MaxSmOps == 4

\* this.session = undefined
NoSession == 0

\* the log entry of a call: the session field before it, how the call
\* ended (returned / resolved, or the class of the error it raised), the
\* class of the error wrapped as its cause, whether the call reached the
\* native session or LanguageModel.create, and the native sessions after it
\* (quota: the quota level a prompt call found)
SmEntry(op, before, outcome, cause, reached, natives) ==
  [op |-> op, session |-> before, quota |-> "safe", outcome |-> outcome,
   cause |-> cause, reached |-> reached, natives |-> natives]

\* `error instanceof cls` for an error of class c: QuotaExceededError,
\* SessionError and StructuredOutputError extend PromptAPIError
InstanceOf(c, cls) ==
  /\ c \in {"QuotaExceededError", "SessionError", "StructuredOutputError", "NativeError"}
  /\ \/ c = cls
     \/ cls = "PromptAPIError" /\ c # "NativeError"
     \/ cls = "Error"

\* what the quota tracker reports for the session at the time of a call
QuotaLevels == {"safe", "exhausted"}

\* SessionManager.prompt: the guard, then inside try the quota check and
\* the native prompt; the catch wraps whatever was thrown in a SessionError
smPrompt(m, level, ok) ==
  IF m.session = NoSession
  THEN SmEntry("prompt", m.session, "SessionError", Undef, FALSE, m.natives)
  ELSE IF level = "exhausted"
  THEN SmEntry("prompt", m.session, "SessionError", "QuotaExceededError", FALSE, m.natives)
  ELSE IF ok
  THEN SmEntry("prompt", m.session, "resolved", Undef, TRUE, m.natives)
  ELSE SmEntry("prompt", m.session, "SessionError", "NativeError", TRUE, m.natives)

\* SessionManager.promptStreaming: no try / catch around the quota check
smPromptStreaming(m, level) ==
  IF m.session = NoSession
  THEN SmEntry("promptStreaming", m.session, "SessionError", Undef, FALSE, m.natives)
  ELSE IF level = "exhausted"
  THEN SmEntry("promptStreaming", m.session, "QuotaExceededError", Undef, FALSE, m.natives)
  ELSE SmEntry("promptStreaming", m.session, "returned", Undef, TRUE, m.natives)

\* SessionManager.countTokens
smCountTokens(m, ok) ==
  IF m.session = NoSession
  THEN SmEntry("countTokens", m.session, "SessionError", Undef, FALSE, m.natives)
  ELSE IF ok
  THEN SmEntry("countTokens", m.session, "resolved", Undef, TRUE, m.natives)
  ELSE SmEntry("countTokens", m.session, "NativeError", Undef, TRUE, m.natives)

\* SessionManager.clone: the cloned native session belongs to the new manager
smClone(m, ok) ==
  IF m.session = NoSession
  THEN SmEntry("clone", m.session, "SessionError", Undef, FALSE, m.natives)
  ELSE IF ok
  THEN SmEntry("clone", m.session, "resolved", Undef, TRUE, m.natives)
  ELSE SmEntry("clone", m.session, "SessionError", "NativeError", TRUE, m.natives)

\* destroy leaving this.session in place
smDestroy_keepSession(m) ==
  IF m.session # NoSession
  THEN [m EXCEPT !.natives[m.session] =
                   [state |-> "destroyed", destroys |-> @.destroys + 1]]
  ELSE m

\* SessionManager.destroy; natives[s].destroys counts the calls of the
\* native session's destroy
smDestroy(m) ==
  IF m.session # NoSession
  THEN [m EXCEPT !.natives[m.session] =
                   [state |-> "destroyed", destroys |-> @.destroys + 1],
                 !.session = NoSession]
  ELSE m

InitSession ==
  /\ cfg = [maxIterations |-> 1, maxReflections |-> 0, enablePlanning |-> FALSE,
            stopCondition |-> "none", onStep |-> FALSE]
  /\ NewAgent
  /\ strategy = NoStrategy /\ waiting = NoWaiting /\ retrying = NoRetrying
  /\ exec = NoExec /\ sp = NoSp /\ codec = NoCodec
  /\ reg = NoReg /\ batch = NoBatch
  /\ sm = [phase |-> "ready", session |-> NoSession, natives |-> <<>>,
           creating |-> "none", log |-> <<>>]

\* create is called and awaits window.LanguageModel.create
SmCreate ==
  /\ Len(sm.log) < MaxSmOps
  /\ sm.creating = "none"
  /\ sm' = [sm EXCEPT !.creating = "create"]
  /\ UNCHANGED <<cfg, agent, mgrs, calls, exec, sp, codec, reg, batch, strategy, waiting, retrying>>

\* restore is called: SessionError when the storage has no such session,
\* else it calls create with the stored options
SmRestore ==
  /\ Len(sm.log) < MaxSmOps
  /\ sm.creating = "none"
  /\ \E found \in BOOLEAN :
       sm' = IF found
             THEN [sm EXCEPT !.creating = "restore"]
             ELSE [sm EXCEPT !.log = Append(@, SmEntry("restore", sm.session, "SessionError",
                                                       Undef, FALSE, sm.natives))]
  /\ UNCHANGED <<cfg, agent, mgrs, calls, exec, sp, codec, reg, batch, strategy, waiting, retrying>>

\* the native create resolves with a session: this.session is assigned
SmCreateResolves ==
  /\ sm.creating # "none"
  /\ LET natives == Append(sm.natives, [state |-> "live", destroys |-> 0])
     IN sm' = [sm EXCEPT !.creating = "none",
                         !.natives = natives,
                         !.session = Len(natives),
                         !.log = Append(@, SmEntry(sm.creating, sm.session, "resolved",
                                                   Undef, TRUE, natives))]
  /\ UNCHANGED <<cfg, agent, mgrs, calls, exec, sp, codec, reg, batch, strategy, waiting, retrying>>

\* the native create rejects or yields nothing: create throws SessionError
SmCreateRejects ==
  /\ sm.creating # "none"
  /\ sm' = [sm EXCEPT !.creating = "none",
                      !.log = Append(@, SmEntry(sm.creating, sm.session, "SessionError",
                                                "NativeError", TRUE, sm.natives))]
  /\ UNCHANGED <<cfg, agent, mgrs, calls, exec, sp, codec, reg, batch, strategy, waiting, retrying>>

\* prompt is called, with the quota level of the session and the outcome
\* of the native prompt
SmPrompt ==
  /\ Len(sm.log) < MaxSmOps
  /\ \E level \in QuotaLevels, ok \in BOOLEAN :
       sm' = [sm EXCEPT !.log = Append(@, [smPrompt(sm, level, ok) EXCEPT !.quota = level])]
  /\ UNCHANGED <<cfg, agent, mgrs, calls, exec, sp, codec, reg, batch, strategy, waiting, retrying>>

SmPromptStreaming ==
  /\ Len(sm.log) < MaxSmOps
  /\ \E level \in QuotaLevels :
       sm' = [sm EXCEPT !.log = Append(@, [smPromptStreaming(sm, level) EXCEPT !.quota = level])]
  /\ UNCHANGED <<cfg, agent, mgrs, calls, exec, sp, codec, reg, batch, strategy, waiting, retrying>>

SmCountTokens ==
  /\ Len(sm.log) < MaxSmOps
  /\ \E ok \in BOOLEAN :
       sm' = [sm EXCEPT !.log = Append(@, smCountTokens(sm, ok))]
  /\ UNCHANGED <<cfg, agent, mgrs, calls, exec, sp, codec, reg, batch, strategy, waiting, retrying>>

SmClone ==
  /\ Len(sm.log) < MaxSmOps
  /\ \E ok \in BOOLEAN :
       sm' = [sm EXCEPT !.log = Append(@, smClone(sm, ok))]
  /\ UNCHANGED <<cfg, agent, mgrs, calls, exec, sp, codec, reg, batch, strategy, waiting, retrying>>

\* destroy is called
SmDestroy ==
  /\ Len(sm.log) < MaxSmOps
  /\ sm' = [smDestroy(sm) EXCEPT
              !.log = Append(@, SmEntry("destroy", sm.session, "returned", Undef,
                                        sm.session # NoSession, smDestroy(sm).natives))]
  /\ UNCHANGED <<cfg, agent, mgrs, calls, exec, sp, codec, reg, batch, strategy, waiting, retrying>>

NextSession ==
  \/ SmCreate
  \/ SmRestore
  \/ SmCreateResolves
  \/ SmCreateRejects
  \/ SmPrompt
  \/ SmPromptStreaming
  \/ SmCountTokens
  \/ SmClone
  \/ SmDestroy

SpecSession == InitSession /\ [][NextSession]_vars

\* ------------------------------------------- promptWithStructureStreaming
\* chunks the stream delivers before it is done
MaxChunks == 2

\* snapshots read from the stream: whether the text parses as JSON as it
\* is, whether it does once the missing closing braces are added, and
\* whether the parsed value matches the caller's schema
Snapshots ==
  {[json |-> FALSE, matches |-> FALSE, closable |-> FALSE, value |-> "not json"],
   [json |-> FALSE, matches |-> FALSE, closable |-> TRUE, value |-> "{name: An"],
   [json |-> TRUE, matches |-> FALSE, closable |-> TRUE, value |-> "{}"],
   [json |-> TRUE, matches |-> TRUE, closable |-> TRUE, value |-> "{name: Ann}"]}
EmptySnapshot == [json |-> FALSE, matches |-> FALSE, closable |-> FALSE, value |-> ""]

\* parsePartialJSON: the parsed value, or null
parsePartialJSON(snapshot) == IF snapshot.closable THEN snapshot.value ELSE NoError

\* the onPartial option: absent, a callback, or a callback that throws
OnPartialOptions == {"none", "returns", "throws"}

\* the body of the read loop after `accumulated = value`: the partial
\* value is handed to onPartial, and whatever is thrown there is ignored
afterChunk(s, snapshot) ==
  LET s1 == [s EXCEPT !.accumulated = snapshot, !.chunks = @ + 1]
  IN IF s.onPartial # "none" /\ parsePartialJSON(snapshot) # NoError
     THEN [s1 EXCEPT !.partials = Append(@, parsePartialJSON(snapshot))]
     ELSE s1

\* after the loop: parse and validate the accumulated text once; the
\* finally block releases the reader's lock
afterStream(s) ==
  LET r == tryBlock(s.schemaKind, s.accumulated)
  IN IF r.ok
     THEN [s EXCEPT !.pc = "returned", !.returned = r.value, !.released = TRUE]
     ELSE [s EXCEPT !.pc = "threw", !.released = TRUE,
                    !.thrown = [type |-> IF r.error = ParseErr
                                         THEN StructuredOutputErrorType ELSE ZodErr,
                                cause |-> NoError]]

InitStream ==
  /\ cfg = [maxIterations |-> 1, maxReflections |-> 0, enablePlanning |-> FALSE,
            stopCondition |-> "none", onStep |-> FALSE]
  /\ NewAgent
  /\ strategy = NoStrategy /\ waiting = NoWaiting /\ retrying = NoRetrying
  /\ exec = NoExec
  /\ codec = NoCodec
  /\ reg = NoReg /\ batch = NoBatch /\ sm = NoSm
  /\ \E opt \in MaxRetriesOptions, schemaKind \in {"zod", "plain"},
        onPartial \in OnPartialOptions :
       sp = [pc |-> "calledStreaming", schemaKind |-> schemaKind,
             maxRetries |-> IF opt.given THEN opt.value ELSE DefaultMaxRetries,
             onPartial |-> onPartial, streams |-> 0, chunks |-> 0,
             accumulated |-> EmptySnapshot, partials |-> <<>>, parses |-> 0,
             released |-> FALSE, returned |-> Undef,
             thrown |-> [type |-> Undef, cause |-> NoError]]

\* promptWithStructureStreaming is called: session.promptStreaming throws
\* (no session, quota) or returns the stream, and the first read is awaited
PromptWithStructureStreaming ==
  /\ sp.pc = "calledStreaming"
  /\ \E entry \in {smPromptStreaming([session |-> s, natives |-> <<>>], level) :
                     s \in {NoSession, 1}, level \in QuotaLevels} :
       sp' = IF entry.outcome = "returned"
             THEN [sp EXCEPT !.pc = "reading", !.streams = @ + 1]
             ELSE [sp EXCEPT !.pc = "threw",
                             !.thrown = [type |-> entry.outcome, cause |-> NoError]]
  /\ UNCHANGED <<cfg, agent, mgrs, calls, exec, codec, reg, batch, sm, strategy, waiting, retrying>>

\* reader.read() resolves with a chunk
ReadChunk ==
  /\ sp.pc = "reading"
  /\ sp.chunks < MaxChunks
  /\ \E snapshot \in Snapshots : sp' = afterChunk(sp, snapshot)
  /\ UNCHANGED <<cfg, agent, mgrs, calls, exec, codec, reg, batch, sm, strategy, waiting, retrying>>

\* reader.read() resolves with done
ReadDone ==
  /\ sp.pc = "reading"
  /\ sp' = afterStream([sp EXCEPT !.parses = @ + 1])
  /\ UNCHANGED <<cfg, agent, mgrs, calls, exec, codec, reg, batch, sm, strategy, waiting, retrying>>

\* reader.read() rejects
ReadFails ==
  /\ sp.pc = "reading"
  /\ sp' = [sp EXCEPT !.pc = "threw", !.released = TRUE,
                      !.thrown = [type |-> "NativeError", cause |-> NoError]]
  /\ UNCHANGED <<cfg, agent, mgrs, calls, exec, codec, reg, batch, sm, strategy, waiting, retrying>>

NextStream == PromptWithStructureStreaming \/ ReadChunk \/ ReadDone \/ ReadFails

SpecStream == InitStream /\ [][NextStream]_vars

\* ------------------------------------------------------ createRetryStrategy
\* calls made on the returned closure
MaxStrategyCalls == 5
\* largest maxRetries argument given
MaxStrategyRetries == 2

\* createRetryStrategy(maxRetries = 3)
DefaultStrategyRetries == 3

NoFeedback == [kind |-> "null"]
RetryFeedback(n, of) == [kind |-> "retry", attempt |-> n, of |-> of]
MaxReached == [kind |-> "max", attempt |-> 0, of |-> 0]

\* one call of the closure on a step whose observation has success false
\* (failed) or not: the value returned and the counter afterwards
retryStrategy(st, failed) ==
  IF failed /\ st.retries < st.maxRetries
  THEN [retries |-> st.retries + 1, ret |-> RetryFeedback(st.retries + 1, st.maxRetries)]
  ELSE IF st.retries >= st.maxRetries
  THEN [retries |-> st.retries, ret |-> MaxReached]
  ELSE [retries |-> 0, ret |-> NoFeedback]

InitStrategy ==
  /\ cfg = [maxIterations |-> 1, maxReflections |-> 0, enablePlanning |-> FALSE,
            stopCondition |-> "none", onStep |-> FALSE]
  /\ NewAgent
  /\ waiting = NoWaiting /\ retrying = NoRetrying
  /\ exec = NoExec /\ sp = NoSp /\ codec = NoCodec
  /\ reg = NoReg /\ batch = NoBatch /\ sm = NoSm
  /\ \E n \in {DefaultStrategyRetries} \cup 0..MaxStrategyRetries :
       strategy = [phase |-> "ready", maxRetries |-> n, retries |-> 0, log |-> <<>>]

\* the closure is called with a step
CallStrategy ==
  /\ Len(strategy.log) < MaxStrategyCalls
  /\ \E failed \in BOOLEAN :
       LET r == retryStrategy(strategy, failed)
       IN strategy' = [strategy EXCEPT !.retries = r.retries,
                                       !.log = Append(@, [failed |-> failed, ret |-> r.ret])]
  /\ UNCHANGED <<cfg, agent, mgrs, calls, exec, sp, codec, reg, batch, sm, waiting, retrying>>

NextStrategy == CallStrategy

SpecStrategy == InitStrategy /\ [][NextStrategy]_vars

\* ------------------------------------------------------- waitForModelReady
\* what window.LanguageModel.availability() reports
AvailabilityStatus == {"unavailable", "downloadable", "downloading", "available"}

\* the promise returned to the caller settles once
settle(wt, how, reason) ==
  IF wt.settled # "pending" THEN wt
  ELSE [wt EXCEPT !.settled = how, !.reason = reason,
                  !.isInitialized = wt.entry = "initialize" /\ how = "resolved"]

clearTimeout(wt) == IF wt.timer = "armed" THEN [wt EXCEPT !.timer = "cleared"] ELSE wt

\* the executor of the promise: the timer, the aborted test, the second
\* availability check and the abort listener
executor(wt) ==
  LET w1 == [wt EXCEPT !.timer = IF wt.timeout = "zero" THEN "none" ELSE "armed"]
  IN IF w1.signal = "given" /\ w1.aborted
     THEN [settle(clearTimeout(w1), "rejected", "Model download aborted") EXCEPT
             !.pc = "listening"]
     ELSE [w1 EXCEPT !.pc = "checking"]

\* waitForModelReady from the result of its first availability check
afterFirstCheck(wt, status) ==
  IF status = "unavailable"
  THEN [settle(wt, "rejected", "Prompt API is not available") EXCEPT !.pc = "done"]
  ELSE IF status = "available"
  THEN [settle(wt, "resolved", Undef) EXCEPT !.pc = "done"]
  ELSE executor(wt)

\* the then-callback of the second availability check
afterSecondCheck(wt, status) ==
  IF status = "available"
  THEN [settle(clearTimeout(wt), "resolved", Undef) EXCEPT !.pc = "listening"]
  ELSE [wt EXCEPT !.pc = "listening"]

InitWait ==
  /\ cfg = [maxIterations |-> 1, maxReflections |-> 0, enablePlanning |-> FALSE,
            stopCondition |-> "none", onStep |-> FALSE]
  /\ NewAgent
  /\ strategy = NoStrategy /\ retrying = NoRetrying
  /\ exec = NoExec /\ sp = NoSp /\ codec = NoCodec
  /\ reg = NoReg /\ batch = NoBatch /\ sm = NoSm
  /\ \E entry \in {"initialize", "waitForModelReady"}, timeout \in {"default", "zero"},
        signal \in {"none", "given"}, env \in AvailabilityStatus :
       waiting = [phase |-> "ready", entry |-> entry, timeout |-> timeout,
                  signal |-> signal, env |-> env,
                  pc |-> IF entry = "initialize" THEN "initCalled" ELSE "called",
                  timer |-> "none", aborted |-> FALSE, settled |-> "pending",
                  reason |-> Undef, isInitialized |-> FALSE,
                  downloadingAtCall |-> entry = "waitForModelReady" /\ env = "downloading",
                  inTime |-> FALSE]

\* PromptClient.initialize resumes with the status of its own check
InitializeCheckSettles ==
  /\ waiting.pc = "initCalled"
  /\ waiting' =
       IF waiting.env = "unavailable"
       THEN [settle(waiting, "rejected", "Prompt API is not available") EXCEPT !.pc = "done"]
       ELSE IF waiting.env = "downloading"
       THEN [waiting EXCEPT !.pc = "called", !.downloadingAtCall = TRUE]
       ELSE [settle(waiting, "resolved", Undef) EXCEPT !.pc = "done"]
  /\ UNCHANGED <<cfg, agent, mgrs, calls, exec, sp, codec, reg, batch, sm, strategy, retrying>>

\* waitForModelReady resumes with the status of its first check
FirstCheckSettles ==
  /\ waiting.pc = "called"
  /\ waiting' = afterFirstCheck(waiting, waiting.env)
  /\ UNCHANGED <<cfg, agent, mgrs, calls, exec, sp, codec, reg, batch, sm, strategy, retrying>>

\* the second check, made inside the promise, settles
SecondCheckSettles ==
  /\ waiting.pc = "checking"
  /\ waiting' = afterSecondCheck(waiting, waiting.env)
  /\ UNCHANGED <<cfg, agent, mgrs, calls, exec, sp, codec, reg, batch, sm, strategy, retrying>>

\* the timer set by the executor fires
TimeoutFires ==
  /\ waiting.timer = "armed"
  /\ waiting' = settle([waiting EXCEPT !.timer = "fired"], "rejected",
                       "Model download timeout exceeded")
  /\ UNCHANGED <<cfg, agent, mgrs, calls, exec, sp, codec, reg, batch, sm, strategy, retrying>>

\* the caller aborts the signal; the listener exists once the executor ran
Abort ==
  /\ waiting.signal = "given"
  /\ ~waiting.aborted
  /\ waiting' =
       IF waiting.pc \in {"checking", "listening"}
       THEN settle(clearTimeout([waiting EXCEPT !.aborted = TRUE]), "rejected",
                   "Model download aborted")
       ELSE [waiting EXCEPT !.aborted = TRUE]
  /\ UNCHANGED <<cfg, agent, mgrs, calls, exec, sp, codec, reg, batch, sm, strategy, retrying>>

\* the download completes; inTime notes that this happened after the call
\* found the model downloading, with the timer not fired and no abort
ModelBecomesAvailable ==
  /\ waiting.env = "downloading"
  /\ waiting' = [waiting EXCEPT
                   !.env = "available",
                   !.inTime = /\ waiting.downloadingAtCall
                              /\ waiting.timer # "fired"
                              /\ ~waiting.aborted
                              /\ waiting.settled = "pending"]
  /\ UNCHANGED <<cfg, agent, mgrs, calls, exec, sp, codec, reg, batch, sm, strategy, retrying>>

NextWait ==
  \/ InitializeCheckSettles
  \/ FirstCheckSettles
  \/ SecondCheckSettles
  \/ TimeoutFires
  \/ Abort
  \/ ModelBecomesAvailable

\* every availability check that was started settles
SpecWait ==
  /\ InitWait /\ [][NextWait]_vars
  /\ WF_vars(InitializeCheckSettles)
  /\ WF_vars(FirstCheckSettles)
  /\ WF_vars(SecondCheckSettles)

\* ----------------------------------------------------------------- withRetry
\* largest maxAttempts option given
MaxAttemptsGiven == 2

\* maxAttempts = 3, delay = 1000
DefaultMaxAttempts == 3
DefaultDelay == 1000

\* options.maxAttempts: not given, or a number
MaxAttemptsOptions ==
  {[given |-> FALSE, value |-> 0]} \cup {[given |-> TRUE, value |-> n] : n \in 0..MaxAttemptsGiven}

RECURSIVE Pow2(_)
Pow2(n) == IF n <= 0 THEN 1 ELSE 2 * Pow2(n - 1)

\* execute(): fn is invoked and awaited
execute(r) == [r EXCEPT !.pc = "calling", !.invocations = @ + 1]

\* the try block after fn resolved
onResolved(r, result) ==
  [r EXCEPT !.pc = "done", !.settled = "resolved", !.value = result,
            !.log = Append(@, [ok |-> TRUE, value |-> result, asked |-> FALSE,
                               answer |-> FALSE])]

\* the catch block giving up one failure too late
onRejected_offByOne(r, error, answer) ==
  LET attempt == r.attempt + 1
      ask == ~(attempt > r.maxAttempts)
      entry == [ok |-> FALSE, value |-> error, asked |-> ask, answer |-> ask /\ answer]
  IN IF attempt > r.maxAttempts \/ ~answer
     THEN [r EXCEPT !.attempt = attempt, !.pc = "done", !.settled = "rejected",
                    !.value = error, !.log = Append(@, entry)]
     ELSE [r EXCEPT !.attempt = attempt, !.pc = "timer", !.log = Append(@, entry),
                    !.waits = Append(@, IF r.backoff THEN r.delay * Pow2(attempt - 1)
                                        ELSE r.delay)]

\* the catch block after fn rejected with error; answer is what shouldRetry
\* returns if it is asked
onRejected(r, error, answer) ==
  LET attempt == r.attempt + 1
      ask == ~(attempt >= r.maxAttempts)
      entry == [ok |-> FALSE, value |-> error, asked |-> ask, answer |-> ask /\ answer]
  IN IF attempt >= r.maxAttempts \/ ~answer
     THEN [r EXCEPT !.attempt = attempt, !.pc = "done", !.settled = "rejected",
                    !.value = error, !.log = Append(@, entry)]
     ELSE [r EXCEPT !.attempt = attempt, !.pc = "timer", !.log = Append(@, entry),
                    !.waits = Append(@, IF r.backoff THEN r.delay * Pow2(attempt - 1)
                                        ELSE r.delay)]

\* the value or error of the k-th invocation of fn
Outcome(k) == [invocation |-> k]
NoOutcome == [invocation |-> 0]

InitRetry ==
  /\ cfg = [maxIterations |-> 1, maxReflections |-> 0, enablePlanning |-> FALSE,
            stopCondition |-> "none", onStep |-> FALSE]
  /\ NewAgent
  /\ strategy = NoStrategy /\ waiting = NoWaiting
  /\ exec = NoExec /\ sp = NoSp /\ codec = NoCodec
  /\ reg = NoReg /\ batch = NoBatch /\ sm = NoSm
  /\ \E opt \in MaxAttemptsOptions, delay \in {0, DefaultDelay}, backoff \in BOOLEAN,
        shouldRetryGiven \in BOOLEAN :
       retrying = execute([phase |-> "ready",
                           maxAttempts |-> IF opt.given THEN opt.value
                                           ELSE DefaultMaxAttempts,
                           delay |-> delay, backoff |-> backoff,
                           shouldRetryGiven |-> shouldRetryGiven,
                           attempt |-> 0, invocations |-> 0, pc |-> "called",
                           settled |-> "pending", value |-> NoOutcome,
                           log |-> <<>>, waits |-> <<>>])

\* the awaited fn() resolves
FnResolves ==
  /\ retrying.pc = "calling"
  /\ retrying' = onResolved(retrying, Outcome(retrying.invocations))
  /\ UNCHANGED <<cfg, agent, mgrs, calls, exec, sp, codec, reg, batch, sm, strategy, waiting>>

\* the awaited fn() rejects (or fn throws); the default shouldRetry
\* answers true
FnRejects ==
  /\ retrying.pc = "calling"
  /\ \E answer \in IF retrying.shouldRetryGiven THEN BOOLEAN ELSE {TRUE} :
       retrying' = onRejected(retrying, Outcome(retrying.invocations), answer)
  /\ UNCHANGED <<cfg, agent, mgrs, calls, exec, sp, codec, reg, batch, sm, strategy, waiting>>

\* the timer set by the catch block fires: execute runs again
RetryTimerFires ==
  /\ retrying.pc = "timer"
  /\ retrying' = execute(retrying)
  /\ UNCHANGED <<cfg, agent, mgrs, calls, exec, sp, codec, reg, batch, sm, strategy, waiting>>

NextRetry == FnResolves \/ FnRejects \/ RetryTimerFires

SpecRetry == InitRetry /\ [][NextRetry]_vars

\* ----------------------------------------------------------- properties
N == cfg.maxIterations

\* a call of run has returned its AgentResult (to the caller, or to the
\* `await this.run` of executeWithReflection)
RunReturned(c) ==
  \/ calls[c].kind = "run" /\ calls[c].pc = "done"
  \/ calls[c].pc = "returned"

\* a run in which the stop predicate was never satisfied and no prompt failed
Unsatisfied(c) ==
  /\ RunReturned(c)
  /\ ~calls[c].fin.satisfied
  /\ calls[c].result.error # PromptErr

StepsNumbered(stps) ==
  /\ Len(stps) <= N
  /\ \A i \in 1..Len(stps) : stps[i].iteration = i

\* C2: in every state the i-th recorded step (counted from 1) carries
\* iteration i and there are at most N steps, in the agent's history and in
\* every AgentResult.
C2_StepMonotonicity ==
  /\ StepsNumbered(agent.steps)
  /\ \A c \in Calls : StepsNumbered(calls[c].result.steps)

\* witness of C2: a result with two steps
C2_Witness ==
  \E c \in Calls :
    /\ RunReturned(c)
    /\ Len(calls[c].result.steps) >= 2
    /\ calls[c].result.steps = agent.steps

\* C3: when run returns, on whatever path, the session of the manager the
\* run constructed is not live and the agent holds no session.
C3_RunCleanup ==
  \A c \in Calls :
    RunReturned(c) =>
      /\ agent.session = 0
      /\ calls[c].mgrOf # 0
      /\ mgrs[calls[c].mgrOf] # "live"

\* witness of C3: a run whose prompt failed has destroyed its session
C3_Witness ==
  \E c \in Calls :
    /\ RunReturned(c)
    /\ calls[c].result.error = PromptErr
    /\ mgrs[calls[c].mgrOf] = "destroyed"

\* C4 as stated: when runWithPlanning returns, every session created during
\* it (planning session and the session of each run) has been destroyed.
C4_PlanningCleanup ==
  \A c \in Calls :
    (calls[c].kind = "plan" /\ calls[c].pc = "done") =>
      \A m \in calls[c].made : mgrs[m] # "live"

\* C5 as stated: runWithPlanning starts at most maxReflections re-runs after
\* the first run (read here in the claim's favour: the budget is the value
\* the code uses, which is 2 when maxReflections = 0 is configured).
C5_ReflectionBudget ==
  \A c \in Calls : calls[c].reruns <= maxReflections

\* C6 as stated: every re-run of the agent loop by the reflect phase is
\* preceded by a reflection prompt to the model and increments the
\* reflection count by exactly one.
C6_ReflectStep ==
  [][\A c \in Calls :
       calls'[c].reruns = calls[c].reruns + 1 =>
         /\ calls[c].pc = "reflecting"
         /\ agent'.reflectionCount = agent.reflectionCount + 1]_vars

RequiredPresent(call, parameters) ==
  \A i \in 1..Len(parameters.required) : parameters.required[i] \in call.args

\* C7 as stated: the handler is invoked only if the name is registered, the
\* schema is of object kind and every required name is among the arguments;
\* a call missing a required argument returns {success: false}.
C7_ValidationShortCircuit ==
  /\ exec.phase # "none" /\ exec.invoked =>
       /\ RegistryHas(exec.registry, exec.call.name)
       /\ exec.registry[exec.call.name].type = "object"
       /\ RequiredPresent(exec.call, exec.registry[exec.call.name])
  /\ (exec.phase \in {"returned", "threw"} /\ RegistryHas(exec.registry, exec.call.name)
        /\ ~RequiredPresent(exec.call, exec.registry[exec.call.name])) =>
       /\ exec.phase = "returned"
       /\ ~exec.result.success
       /\ ~exec.invoked

LastStep(stps) == stps[Len(stps)]

SpEnded == sp.pc \in {"returned", "threw"}

NoRejection == \A i \in 1..Len(sp.log) : sp.log[i].reply # Rejected

\* every reply the model gave during the call was malformed or invalid, and
\* no prompt was rejected
AllRepliesBad ==
  NoRejection /\ \A i \in 1..Len(sp.log) : ~sp.log[i].reply.matches

\* C9 as stated: when every model response is malformed or invalid the call
\* makes exactly maxRetries parse/validate attempts and then raises a
\* StructuredOutputError carrying the error of the last attempt.
C9_RetryExhaustion ==
  (SpEnded /\ AllRepliesBad) =>
    /\ sp.pc = "threw"
    /\ sp.thrown.type = StructuredOutputErrorType
    /\ sp.parses = sp.maxRetries
    /\ sp.thrown.cause = sp.lastError

\* C10 as stated: one completion call per attempt, its response being the
\* one parsed, hence never more than maxRetries completion calls (read
\* here in the claim's favour: calls in which no prompt was rejected).
C10_OnePromptPerAttempt ==
  (sp.pc # "none" /\ NoRejection) =>
    /\ sp.sentFull + sp.sentFeedback <= sp.maxRetries
    /\ \A i \in 1..Len(sp.log) : sp.log[i].parsed

\* the index of the first reply of the call that is valid JSON for the schema
FirstValid(k) ==
  /\ k \in 1..Len(sp.log)
  /\ sp.log[k].reply.matches
  /\ \A j \in 1..(k - 1) : ~sp.log[j].reply.matches

\* C11 as stated: when the first k-1 responses of the model are invalid and
\* the k-th is valid for the schema, 1 <= k <= maxRetries, the call returns
\* the value of the k-th response, which is the last one it consumed, and
\* every response consumed was parsed (read here in the claim's favour:
\* calls in which no prompt was rejected).
C11_SuccessOnKth ==
  \A k \in 1..Len(sp.log) :
    (NoRejection /\ FirstValid(k) /\ k <= sp.maxRetries) =>
      /\ sp.pc = "returned"
      /\ sp.returned = sp.log[k].reply.value
      /\ Len(sp.log) = k
      /\ \A i \in 1..Len(sp.log) : sp.log[i].parsed

\* C12 as stated: a value returned by promptWithStructure is the value of a
\* response that matches the supplied schema, Zod type or plain
\* SchemaDefinition alike.
C12_OnlyValidatedReturned ==
  sp.pc = "returned" =>
    /\ Len(sp.log) >= 1
    /\ sp.log[Len(sp.log)].reply.matches
    /\ sp.returned = sp.log[Len(sp.log)].reply.value

\* C13: for every response text parseFunctionCall returns and does not
\* throw, its result is either a functionCall (with optional reasoning) or a
\* regularResponse and never both, a regularResponse equals the full
\* original text, and a functionCall is reported exactly when the matched
\* text parses as JSON with a truthy functionCall member.
C13_CodecTotal ==
  codec.phase # "called" =>
    /\ codec.phase = "returned"
    /\ ~codec.out.threw
    /\ IF codec.out.functionCall # NoCall
       THEN /\ codec.out.regularResponse = Undef
            /\ Lex(codec.text).parses
       ELSE /\ codec.out.regularResponse = Join(codec.text)
            /\ codec.out.reasoning = Undef

\* witness of C13: a text with a {...} match that JSON.parse rejects came
\* back whole as regularResponse
C13_Witness ==
  /\ codec.phase = "returned"
  /\ Lex(codec.text).braces /\ ~Lex(codec.text).parses
  /\ Len(codec.text) >= 4
  /\ codec.text[1] = "a"
  /\ codec.out.regularResponse = Join(codec.text)

\* run resumes from an await while stop() has been called since it started
ResumesStopped(c) ==
  /\ agent.shouldStop
  /\ calls[c].pc \in {"creating", "prompting", "executing"}
  /\ calls'[c] # calls[c]

\* an iteration ended the run: early completion, or a prompt or the onStep
\* observer raised
EndedByIteration(cl) ==
  \/ cl.fin.path = "early"
  \/ cl.fin.path = "catch" /\ cl.result.error \in {PromptErr, OnStepErr}

\* after the resumption: no prompt went out, and if run returned, it
\* returned stopped with one step per iteration begun
StoppedWith(c) ==
  /\ calls'[c].pc # "prompting"
  /\ calls'[c].pc \in {"done", "returned"} =>
       /\ calls'[c].result.status = "stopped"
       /\ Len(calls'[c].result.steps) = calls[c].iteration
       /\ calls'[c].result.iterations = calls[c].iteration
       /\ calls'[c].fin.prompts = calls[c].prompts

\* C14 as stated: once stop() has been called after run started, no further
\* iteration begins, and unless one of the iterations begun ended the run,
\* run returns status stopped with exactly k steps.
C14_CooperativeStop ==
  [][\A c \in Calls :
       (ResumesStopped(c) /\ ~EndedByIteration(calls'[c])) => StoppedWith(c)]_vars

\* C14 amended: the same, unless session creation raised (the run then
\* returns status failed with no steps and no prompt sent).
C14_CooperativeStopCreated ==
  [][\A c \in Calls :
       (ResumesStopped(c) /\ ~EndedByIteration(calls'[c])) =>
         IF calls'[c].result.error = CreateErr /\ calls[c].pc = "creating"
         THEN /\ calls'[c].result.status = "failed"
              /\ calls'[c].result.steps = <<>>
              /\ calls'[c].fin.prompts = 0
         ELSE StoppedWith(c)]_vars

\* witness of C14: stop() during the first of two iterations; run returned
\* stopped with one step and one prompt sent
C14_Witness ==
  \E c \in Calls :
    /\ RunReturned(c) /\ N = 2
    /\ calls[c].result.status = "stopped"
    /\ Len(calls[c].result.steps) = 1
    /\ calls[c].fin.prompts = 1

\* C15: a run (of run, of runWithPlanning, or started by the reflect loop)
\* that has returned status stopped had stop() called on the agent after it
\* began; a flag left set by a stop() before the run began is not seen.
C15_StoppedOnlyByStop ==
  \A c \in Calls :
    (calls[c].pc \in {"done", "returned"} /\ calls[c].result.status = "stopped") =>
      calls[c].stopCalled

\* witness of C15: a run returned stopped after a stop() during it
C15_Witness ==
  \E c \in Calls :
    /\ calls[c].pc = "done"
    /\ calls[c].result.status = "stopped"
    /\ calls[c].stopCalled
    /\ calls[c].reruns = 0

\* C16 as stated: a run that returned status failed did so because session
\* creation or a prompt raised.
C16_FailedOnlyFromSession ==
  \A c \in Calls :
    (RunReturned(c) /\ calls[c].result.status = "failed") =>
      calls[c].result.error \in {CreateErr, PromptErr}

\* the awaited session.create of run rejects
CreateFails(c) ==
  /\ calls[c].pc = "creating"
  /\ Commit(catchRun(W, c, CreateErr))

\* C17: when session.create or session.prompt rejects inside run, run
\* returns (it does not throw) a result with status failed, the error, the
\* steps recorded so far and iterations equal to their number; the session
\* is released and the failing prompt was the last one sent: one prompt per
\* recorded step plus the failing one, none for a failed creation.
C17_SessionFailureSurfaced ==
  [][\A c \in Calls :
       (CreateFails(c) \/ PromptFails(c)) =>
         /\ calls'[c].pc \in {"done", "returned"}
         /\ calls'[c].result.status = "failed"
         /\ calls'[c].result.error = IF calls[c].pc = "creating" THEN CreateErr ELSE PromptErr
         /\ calls'[c].result.steps = agent.steps
         /\ calls'[c].result.iterations = Len(agent.steps)
         /\ calls'[c].fin.prompts = calls[c].prompts
         /\ calls[c].prompts = IF calls[c].pc = "creating" THEN 0 ELSE Len(agent.steps) + 1
         /\ agent'.status = "failed"
         /\ agent'.session = 0]_vars

\* witness of C17: a prompt raised after a step had been recorded
C17_Witness ==
  \E c \in Calls :
    /\ RunReturned(c)
    /\ calls[c].result.status = "failed"
    /\ calls[c].result.error = PromptErr
    /\ Len(calls[c].result.steps) = 1
    /\ calls[c].result.iterations = 1
    /\ calls[c].fin.prompts = 2

\* C18 as stated: once stop() has been called during a run, the response to
\* the prompt in flight is not acted on: no tool handler is invoked.
C18_DiscardAfterStop ==
  [][\A c \in Calls :
       (agent.shouldStop /\ calls[c].stopCalled /\ calls[c].pc = "prompting") =>
         calls'[c].pc # "executing"]_vars

\* C19 as stated: a runWithPlanning during whose planning phase stop() was
\* called returns status stopped without starting a reflection cycle (read
\* here in the claim's favour: calls that did not fail).
C19_StopDuringPlanning ==
  \A c \in Calls :
    (/\ calls[c].kind = "plan" /\ calls[c].pc = "done"
     /\ calls[c].planStop
     /\ calls[c].result.status # "failed") =>
      /\ calls[c].result.status = "stopped"
      /\ calls[c].reruns = 0

\* C20 as stated: also when run calls on one agent overlap, a run prompts
\* only the session it created, a live session is destroyed only by the run
\* that created it, and no run fails for finding its session missing.
C20_ExclusiveSession ==
  [][/\ \A c \in Calls :
          /\ calls'[c].pc = "prompting" => calls'[c].target = calls'[c].mgrOf
          /\ calls'[c].result.error \notin {NoSessionErr, NoActiveSessionErr}
     /\ \A m \in 1..Len(mgrs) :
          (mgrs[m] = "live" /\ m <= Len(mgrs') /\ mgrs'[m] # "live") =>
            \E c \in Calls : calls'[c] # calls[c] /\ calls[c].mgrOf = m]_vars

\* C21 as stated: a result that run has returned is not changed by any
\* later or overlapping operation on the agent.
C21_ResultImmutable ==
  [][\A c \in Calls :
       (calls[c].pc = "done" /\ calls'[c].pc = "done") =>
         calls'[c].result = calls[c].result]_vars

Returns(c) ==
  /\ calls[c].pc \in {"creating", "prompting", "executing"}
  /\ calls'[c].pc \in {"done", "returned"}

\* C23: when run returns from the loop with the budget of N iterations used
\* up, the status is stopped if stop() was called during the run and
\* completed otherwise, there are N steps and finalAnswer is the thought of
\* the last one.
C23_BudgetExhaustion ==
  [][\A c \in Calls :
       (Returns(c) /\ calls'[c].fin.path = "loop" /\ calls'[c].result.iterations = N) =>
         LET r == calls'[c].result
         IN /\ r.status = IF calls[c].stopCalled THEN "stopped" ELSE "completed"
            /\ Len(r.steps) = N
            /\ r.finalAnswer = r.steps[N].thought
            /\ r.error = Undef]_vars

\* witness of C23: two prose responses with N = 2; finalAnswer is the second
C23_Witness ==
  \E c \in Calls :
    /\ RunReturned(c) /\ N = 2
    /\ calls[c].fin.path = "loop"
    /\ calls[c].result.status = "completed"
    /\ Len(calls[c].result.steps) = 2
    /\ calls[c].result.steps[1].thought = DoneText
    /\ calls[c].result.steps[2].thought = MoreText
    /\ calls[c].result.finalAnswer = MoreText

\* C24 as stated: a caller-supplied stopCondition judges the history that
\* ends with the step of the current response: when the step of a regular
\* response is recorded, the run completes early exactly if stopCondition
\* holds of the history including that step (read here in the claim's
\* favour: steps after which onStep did not raise).
C24_StopConditionFullHistory ==
  [][\A c \in Calls :
       (/\ cfg.stopCondition # "none"
        /\ calls[c].pc = "prompting"
        /\ Len(agent'.steps) = Len(agent.steps) + 1
        /\ LastStep(agent'.steps).action = NoAction
        /\ calls'[c].fin.path # "catch") =>
         (calls'[c].fin.path = "early" <=> stopCondition(cfg.stopCondition, agent'.steps))]_vars

\* a step whose tool handler was invoked
HandlerRan(step) ==
  /\ step.action # NoAction
  /\ step.observation.success \/ step.observation.error = HandlerMsg

\* C25 as stated: with stopCondition = maxFunctionCalls(n) no run executes
\* more than n tool calls.
C25_MaxFunctionCalls ==
  cfg.stopCondition = "maxFunctionCalls" =>
    Cardinality({i \in 1..Len(agent.steps) : HandlerRan(agent.steps[i])}) <= MaxFunctionCallsArg

\* C26: at every await of a run, and when it has returned, the steps the
\* observer has been called with are exactly the steps of the history, in
\* order (none when no onStep is configured).
C26_OnStepOncePerStep ==
  \A c \in Calls :
    calls[c].kind # "none" =>
      calls[c].observed =
        IF ~cfg.onStep THEN <<>>
        ELSE IF calls[c].pc \in {"done", "returned"} THEN calls[c].result.steps
        ELSE agent.steps

\* witness of C26: the second prompt is in flight and the observer has seen
\* the first step
C26_Witness ==
  \E c \in Calls :
    /\ cfg.onStep
    /\ calls[c].pc = "prompting" /\ calls[c].iteration = 2
    /\ Len(calls[c].observed) = 1
    /\ calls[c].observed[1].iteration = 1

\* a run or a planning phase is waiting for the session or for a tool
InFlight(cl) == cl.pc \in {"planCreating", "planning", "creating", "prompting", "executing"}

\* C27: the status is idle only while no run has been started and never
\* becomes idle again, it is running while a run is in flight, and when a
\* run or runWithPlanning has returned it is the status of the result.
C27_StatusTransitions ==
  [][/\ agent.status # "idle" => agent'.status # "idle"
     /\ agent'.status = "idle" => \A c \in Calls : calls'[c].kind = "none"
     /\ \A c \in Calls :
          /\ InFlight(calls'[c]) => agent'.status = "running"
          /\ calls'[c].pc \in {"done", "returned"} =>
               /\ agent'.status = calls'[c].result.status
               /\ agent'.status \in {"completed", "failed", "stopped"}]_vars

\* witness of C27: runWithPlanning returned failed from its planning phase
C27_Witness ==
  \E c \in Calls :
    /\ calls[c].kind = "plan" /\ calls[c].pc = "done"
    /\ calls[c].prompts = 0 /\ calls[c].made # {}
    /\ calls[c].fin.path = "none"
    /\ calls[c].result.status = "failed"
    /\ agent.status = "failed"

\* C28: after any sequence of register, registerMultiple, unregister and
\* clear calls the names in the registry are unique, get(name) is the
\* definition most recently registered under the name (nothing once it was
\* removed), and toJSON lists exactly those definitions, without handler, in
\* the order in which their names entered the registry (a re-registration
\* overwrites in place); repeated toJSON calls return equal values.
C28_FunctionRegistry ==
  reg.phase = "ready" =>
    LET out == toJSON(reg.functions)
    IN /\ \A i, j \in 1..Len(reg.functions) :
            reg.functions[i].name = reg.functions[j].name => i = j
       /\ \A n \in RegNames : get(reg.functions, n) = reg.latest[n]
       /\ {out[i].name : i \in 1..Len(out)} = {n \in RegNames : reg.latest[n] # NoDefinition}
       /\ \A i \in 1..Len(out) :
            /\ DOMAIN out[i] = {"name", "description", "parameters"}
            /\ out[i].description = reg.latest[out[i].name].description
            /\ out[i].parameters = reg.latest[out[i].name].parameters
       /\ \A i, j \in 1..Len(out) : i < j => reg.since[out[i].name] < reg.since[out[j].name]
       /\ \A k \in 1..Len(reg.json) : reg.json[k] = out

\* witness of C28: f was registered, then g, then f again with another
\* description, and toJSON was called twice
C28_Witness ==
  /\ reg.phase = "ready"
  /\ Len(reg.functions) = 2
  /\ reg.since["f"] < reg.since["g"] /\ reg.since["g"] < reg.at["f"]
  /\ get(reg.functions, "f").description = "d2"
  /\ Len(reg.json) = 2
  /\ reg.json[2][1].name = "f" /\ reg.json[2][1].description = "d2"

\* the ToolResult executeFunctionCall owes to a call
ExpectedResult(call, outcome) ==
  IF call.name # "f" THEN Failure(NotFoundMsg)
  ELSE IF "x" \notin call.args THEN Failure(MissingMsg("x"))
  ELSE IF outcome.kind = "returns" THEN Success(outcome.value)
  ELSE Failure(outcome.value)

\* C29: executeFunctionCalls invokes the handler of a call only when every
\* earlier call has produced its result and no later one has, and it returns
\* one result per call, results[i] being the result of calls[i]; the calls
\* after a failed one are executed all the same.
C29_BatchSequentialPositional ==
  batch.phase # "none" =>
    /\ \A k \in 1..Len(batch.started) :
         /\ batch.started[k].results = batch.started[k].call - 1
         /\ \A l \in 1..(k - 1) : batch.started[l].call < batch.started[k].call
    /\ batch.phase = "handler" => Len(batch.results) = batch.i - 1
    /\ Len(batch.results) <= Len(batch.calls)
    /\ \A i \in 1..Len(batch.results) :
         batch.results[i] = ExpectedResult(batch.calls[i], batch.outcomes[i])
    /\ batch.phase = "returned" =>
         /\ Len(batch.results) = Len(batch.calls)
         /\ {batch.started[k].call : k \in 1..Len(batch.started)} =
              {i \in 1..Len(batch.calls) : batch.calls[i] = [name |-> "f", args |-> {"x"}]}

\* witness of C29: the first handler threw, the second call named an unknown
\* function, and the third call was executed and succeeded
C29_Witness ==
  /\ batch.phase = "returned"
  /\ Len(batch.calls) = 3
  /\ batch.results[1] = Failure(HandlerMsg)
  /\ batch.results[2] = Failure(NotFoundMsg)
  /\ batch.results[3] = Success("v")
  /\ Len(batch.started) = 2

\* C30: of two destroy calls in a row the second returns without an error,
\* finds no session and leaves everything as the first call left it, and the
\* native session the manager held has had its destroy invoked exactly once.
C30_IdempotentDestroy ==
  sm.phase = "ready" =>
    \A k \in 2..Len(sm.log) :
      (sm.log[k].op = "destroy" /\ sm.log[k - 1].op = "destroy") =>
        /\ sm.log[k].outcome = "returned"
        /\ sm.log[k].session = NoSession
        /\ sm.log[k].natives = sm.log[k - 1].natives
        /\ sm.log[k - 1].session # NoSession =>
             sm.log[k].natives[sm.log[k - 1].session].destroys = 1
        /\ \A s \in 1..Len(sm.log[k].natives) : sm.log[k].natives[s].destroys <= 1

\* witness of C30: a session was created and destroy was called twice
C30_Witness ==
  /\ sm.phase = "ready"
  /\ Len(sm.log) = 3
  /\ sm.log[1].op = "create" /\ sm.log[1].outcome = "resolved"
  /\ sm.log[2].op = "destroy" /\ sm.log[2].session = 1
  /\ sm.log[3].op = "destroy"
  /\ sm.natives[1].destroys = 1
  /\ sm.session = NoSession

\* C31 as stated: a reflect() call made once runWithPlanning has returned
\* returns a reflection produced by the model, and a replan(task) call made
\* then returns a new plan that replaces the current one, with the recorded
\* steps left as they were.
C31_ManualReflectReplan ==
  LET cl == calls[Manual]
  IN (cl.kind \in {"reflect", "replan"} /\ cl.pc = "done" /\ cl.ret.afterPlanned) =>
       /\ cl.ret.outcome = "returned"
       /\ cl.ret.prompted
       /\ agent.steps = cl.ret.stepsAt
       /\ cl.kind = "reflect" => cl.ret.value = ReflectionText
       /\ cl.kind = "replan" => agent.currentPlan # cl.ret.planAt

\* C32 as stated: a SessionManager.prompt call made when the quota of its
\* session is exhausted fails with an error that is an instance of
\* QuotaExceededError.
C32_QuotaExceededError ==
  sm.phase = "ready" =>
    \A k \in 1..Len(sm.log) :
      (sm.log[k].op = "prompt" /\ sm.log[k].session # NoSession
         /\ sm.log[k].quota = "exhausted") =>
        InstanceOf(sm.log[k].outcome, "QuotaExceededError")

\* C33 as stated: when the text streamed to promptWithStructureStreaming is
\* malformed or invalid for the schema the call ends by raising a
\* StructuredOutputError after maxRetries attempts (maxRetries >= 1), and
\* what happened while partial snapshots were parsed or handed to onPartial
\* does not change the outcome.
C33_StreamingRetryContract ==
  (sp.pc = "threw" /\ sp.parses >= 1 /\ sp.maxRetries >= 1) =>
    /\ sp.thrown.type = StructuredOutputErrorType
    /\ sp.streams = sp.maxRetries
    /\ sp.parses = sp.maxRetries

\* C35 as stated: promptWithStructure fails only with a StructuredOutputError
\* and only after maxRetries attempts, whatever the session raised while a
\* full prompt or an error-feedback prompt was sent.
C35_OnlyStructuredOutputError ==
  sp.pc = "threw" =>
    /\ sp.thrown.type = StructuredOutputErrorType
    /\ sp.attempt = sp.maxRetries
    /\ sp.sentFull = sp.maxRetries

\* C34 as stated: the prompt prepared after a tool call embeds the value the
\* handler returned when the call succeeded and the error message when it
\* failed, whatever the returned value is.
C34_ResultReinjection ==
  exec.phase = "prompted" =>
    /\ exec.currentPrompt.success = exec.result.success
    /\ exec.currentPrompt.payload =
         IF exec.result.success THEN exec.result.result ELSE exec.result.error

\* the number of failed steps in a row that end with call k
RECURSIVE FailedRun(_)
FailedRun(k) ==
  IF k = 0 \/ ~strategy.log[k].failed THEN 0 ELSE FailedRun(k - 1) + 1

\* C36 as stated: the counter stays within 0..maxRetries, the j-th failed
\* step in a row gets the feedback numbered j for j <= maxRetries, and every
\* successful step gets null and starts the numbering anew, also when the
\* maximum had been reached before it (for maxRetries >= 1).
C36_RetryStrategy ==
  (strategy.phase = "ready" /\ strategy.maxRetries >= 1) =>
    /\ strategy.retries \in 0..strategy.maxRetries
    /\ \A k \in 1..Len(strategy.log) :
         IF strategy.log[k].failed
         THEN FailedRun(k) <= strategy.maxRetries =>
                strategy.log[k].ret = RetryFeedback(FailedRun(k), strategy.maxRetries)
         ELSE strategy.log[k].ret = NoFeedback

\* C37 as stated: at most one native session created by the manager is
\* live; when a destroy call has returned every native session the manager
\* created is destroyed; and a prompt, promptStreaming, countTokens or clone
\* call made after a destroy call, with no create or restore in between,
\* fails with SessionError without reaching the model.
C37_SessionLifecycle ==
  sm.phase = "ready" =>
    /\ Cardinality({s \in 1..Len(sm.natives) : sm.natives[s].state = "live"}) <= 1
    /\ \A k \in 1..Len(sm.log) :
         sm.log[k].op = "destroy" =>
           \A s \in 1..Len(sm.log[k].natives) : sm.log[k].natives[s].state = "destroyed"
    /\ \A d, k \in 1..Len(sm.log) :
         (/\ d < k
          /\ sm.log[d].op = "destroy"
          /\ \A j \in (d + 1)..(k - 1) : sm.log[j].op \notin {"create", "restore"}
          /\ sm.log[k].op \in {"prompt", "promptStreaming", "countTokens", "clone"}) =>
           /\ sm.log[k].outcome = "SessionError"
           /\ ~sm.log[k].reached

\* C38 as stated: when the model was downloading at the call of
\* waitForModelReady and has become available before the timer fired and
\* before the signal was aborted, the returned promise eventually resolves
\* (read here in the claim's favour: unless the timer fires or the signal
\* is aborted before it does).
C38_ReadinessWaitLive ==
  (waiting.phase = "ready" /\ waiting.inTime) ~>
    (waiting.settled = "resolved" \/ waiting.aborted \/ waiting.timer = "fired")

\* C39: withRetry invokes fn at least once and, for maxAttempts >= 1, at
\* most maxAttempts times; every invocation but the last failed and was
\* followed by shouldRetry answering true, so fn is not invoked again after
\* a success or after shouldRetry returned false; the promise resolves with
\* the result of the first successful invocation and otherwise rejects
\* with the error of the last invocation.
C39_WithRetryBounded ==
  retrying.phase = "ready" =>
    LET n == Len(retrying.log)
    IN /\ retrying.invocations >= 1
       /\ retrying.maxAttempts >= 1 => retrying.invocations <= retrying.maxAttempts
       /\ retrying.invocations = IF retrying.pc = "calling" THEN n + 1 ELSE n
       /\ \A k \in 1..n : retrying.log[k].value = Outcome(k)
       /\ \A k \in 1..(retrying.invocations - 1) :
            /\ ~retrying.log[k].ok
            /\ retrying.log[k].asked /\ retrying.log[k].answer
       /\ (retrying.pc = "done") = (retrying.settled # "pending")
       /\ retrying.settled = "resolved" =>
            retrying.log[n].ok /\ retrying.value = retrying.log[n].value
       /\ retrying.settled = "rejected" =>
            ~retrying.log[n].ok /\ retrying.value = retrying.log[n].value
       /\ retrying.pc = "done" =>
            \/ retrying.log[n].ok
            \/ n >= retrying.maxAttempts
            \/ retrying.log[n].asked /\ ~retrying.log[n].answer

\* witness of C39: with the default maxAttempts fn failed twice and then
\* succeeded, and the promise resolved with the third result
C39_Witness ==
  /\ retrying.phase = "ready"
  /\ retrying.maxAttempts = DefaultMaxAttempts
  /\ retrying.invocations = 3
  /\ retrying.settled = "resolved"
  /\ retrying.value = Outcome(3)
  /\ retrying.backoff /\ retrying.waits = <<DefaultDelay, 2 * DefaultDelay>>

====
